---- MODULE Spec2Model ----
(***************************************************************************)
(* Ink Docs: the document-state hook (useDocument), the backend relations  *)
(* and access policies it talks to, and the editor shell's debounced save  *)
(* and edit-log timers (CollaborativeEditor).                              *)
(*                                                                         *)
(* An async hook operation is one record of `calls`.  Every await is two   *)
(* steps: Backend(i, r), where the backend processes the request in flight *)
(* (or the request fails), and Resume(i), where the operation continues    *)
(* after the await with the response.  Time is counted in ticks of 500 ms. *)
(***************************************************************************)
EXTENDS Naturals, Sequences, FiniteSets, TLC

\* ------------------------------------------------------------------ bounds

\* Hook operations invoked in one behaviour.
MaxCalls == 3
\* fetchHistory invocations in a session.
MaxFetches == 3
\* Rows of document_edits in a session of the history panel.
MaxEdits == 8
\* Rows of documents at any time when the API is used directly.
MaxDocs == 3
\* The latest timestamp handed out when the API is used directly.
MaxClock == 6

\* ------------------------------------------------------- program constants

\* setTimeout(..., 1500), in ticks of 500 ms.
SaveDelay == 3
\* setTimeout(..., 10000), in ticks of 500 ms.
LogDelay == 20
\* fetchHistory: .limit(50).
HistoryLimit == 50

UntitledDocument == "Untitled Document"
\* The fixed welcome payload (the template literal of initDocument).
defaultContent == "\n<h1>Welcome to Ink Docs</h1>\n"

FailedToLoad == "Failed to load document"
FailedToSave == "Failed to save document"
FailedToUpdateTitle == "Failed to update title"
FailedToImport == "Failed to import document"
ToastMessages == {FailedToLoad, FailedToSave, FailedToUpdateTitle, FailedToImport}
\* toast.error messages of the import dialog.
PleaseSelect == "Please select a .doc or .docx file"
PleaseDrop == "Please drop a .doc or .docx file"
PleaseSelectFirst == "Please select a file first"
FailedToConvert == "Failed to import document. Please try a different file."

\* ------------------------------------------------------------------ inputs

\* No authenticated user (useAuth's user is null).
NoUser == "null"
\* The account signed in on this client, and another account of the backend.
Me == "u1"
Other == "u2"
Users == {Me, Other}

\* How a backend request fails: the backend answers with an error result
\* ({ error }), or the call itself rejects (throws).
Failures == {"err", "reject"}

\* What the user can type into the editor (values of editor.getHTML()).
TypedContents == {"<p>a</p>", "<p>ab</p>"}
\* What the user can type into the title input.
TypedTitles == {"T", "Ti"}
\* Converted Word documents: [html, name].
ImportFiles == {[html |-> "<p>w</p>", name |-> "Report.docx"],
                [html |-> "<p>w</p>", name |-> "a.doc.DOC"],
                [html |-> "<p>w</p>", name |-> "doc"],
                [html |-> "<p>w</p>", name |-> "notes.txt"]}

\* The absent document (document === null).
NoDoc == [id |-> 0, owner_id |-> "", title |-> "", content |-> "", updated_at |-> 0]

\* ---------------------------------------------------------- pure functions

\* One character under the regex flag i.
LowerChar(c) ==
    CASE c = "D" -> "d"
      [] c = "O" -> "o"
      [] c = "C" -> "c"
      [] c = "X" -> "x"
      [] OTHER -> c

RECURSIVE Lower(_)
Lower(s) ==
    IF Len(s) = 0 THEN ""
    ELSE LowerChar(SubSeq(s, 1, 1)) \o Lower(SubSeq(s, 2, Len(s)))

\* Whether /\.(doc|docx)$/i matches s starting at position i.
ExtMatchesAt(s, i) ==
    /\ SubSeq(s, i, i) = "."
    /\ Lower(SubSeq(s, i + 1, Len(s))) \in {"doc", "docx"}

StripExtKeepsDocx(fileName) ==
    IF \E i \in 1..Len(fileName) :
          /\ SubSeq(fileName, i, i) = "."
          /\ Lower(SubSeq(fileName, i + 1, Len(fileName))) = "doc"
    THEN SubSeq(fileName, 1, Len(fileName) - 4)
    ELSE fileName

\* fileName.replace(/\.(doc|docx)$/i, ""): the leftmost match is removed.
StripExt(fileName) ==
    IF \E i \in 1..Len(fileName) : ExtMatchesAt(fileName, i)
    THEN LET i == CHOOSE j \in 1..Len(fileName) :
                     /\ ExtMatchesAt(fileName, j)
                     /\ \A k \in 1..(j - 1) : ~ExtMatchesAt(fileName, k)
         IN  SubSeq(fileName, 1, i - 1)
    ELSE fileName

\* editor.getHTML() after editor.commands.setContent(html): the editor
\* serialises its parsed document, so markup that is not in the editor's own
\* form (the welcome payload's line breaks) does not come back as given.
Normalize(html) ==
    IF html = defaultContent THEN "<h1>Welcome to Ink Docs</h1>" ELSE html

\* ------------------------------------------------------------------- state

VARIABLES
    documents,        \* public.documents: set of rows
    document_edits,   \* public.document_edits: rows in insertion order
    document_shares,  \* public.document_shares: set of rows
    clock,            \* now() / new Date(): the latest time anything was stamped
    user,             \* useAuth().user
    effectPending,    \* the initDocument effect has to run (mount, new user)
    document,         \* useDocument: document
    isLoading,        \* useDocument: isLoading
    isSaving,         \* useDocument: isSaving
    toasts,           \* toast.error calls so far, per message
    calls,            \* invocations of the hook's async operations
    emitUpdate,       \* whether this build's setContent emits "update"
    editorContent,    \* editor.getHTML()
    saveTimeoutRef,   \* the pending save timer
    editLogTimeoutRef,\* the pending edit-log timer
    lastSaved,        \* CollaborativeEditor: lastSaved
    sinceUpdate,      \* ticks since the last onUpdate (observer)
    savesSinceUpdate, \* saveDocument calls since the last onUpdate (observer)
    logsSinceUpdate,  \* logEdit calls since the last onUpdate (observer)
    lastUpdateContent,\* editor content at the last onUpdate (observer)
    panelMounted,     \* the HistoryPanel is mounted
    documentId,       \* HistoryPanel: the documentId its effect last ran with
    edits,            \* HistoryPanel: edits
    historyLoading,   \* HistoryPanel: isLoading
    channels,         \* realtime channels subscribed by the panel
    notifications,    \* INSERT events delivered to the panel's channels, not yet handled
    fetches,          \* invocations of fetchHistory
    request,          \* the latest request sent to the backend's API directly
    dialog,           \* FileImportDialog: selectedFile and the toasts it raised
    mounted           \* the CollaborativeEditor component is mounted

backendVars == <<documents, document_edits, document_shares>>
hookVars == <<document, isLoading, isSaving>>
historyVars == <<panelMounted, documentId, edits, historyLoading, channels,
                 notifications, fetches>>
timerVars == <<saveTimeoutRef, editLogTimeoutRef>>
observerVars == <<sinceUpdate, savesSinceUpdate, logsSinceUpdate,
                  lastUpdateContent>>
editorVars == <<editorContent, saveTimeoutRef, editLogTimeoutRef,
                sinceUpdate, savesSinceUpdate, logsSinceUpdate,
                lastUpdateContent>>
vars == <<documents, document_edits, document_shares, clock, user,
          effectPending, document, isLoading, isSaving, toasts, calls,
          emitUpdate, editorContent, saveTimeoutRef, editLogTimeoutRef,
          lastSaved, sinceUpdate, savesSinceUpdate, logsSinceUpdate,
          lastUpdateContent, panelMounted, documentId, edits,
          historyLoading, channels, notifications, fetches, request, dialog,
          mounted>>

\* ----------------------------------------------------------------- backend

\* public.is_document_owner(doc_id), with auth.uid() = uid.
is_document_owner(doc_id, uid) ==
    \E d \in documents : d.id = doc_id /\ d.owner_id = uid

\* public.is_document_collaborator(doc_id), with auth.uid() = uid.
is_document_collaborator(doc_id, uid) ==
    \/ \E d \in documents : d.id = doc_id /\ d.owner_id = uid
    \/ \E s \in document_shares : s.document_id = doc_id /\ s.user_id = uid

\* Policy "Users can create documents": WITH CHECK (auth.uid() = owner_id);
\* with no session auth.uid() is NULL and the check does not pass.
CanInsertDocument(row, uid) == uid # NoUser /\ uid = row.owner_id

\* Policies "Users can view / update own or shared documents".
CanSelectDocument(doc_id, uid) == is_document_collaborator(doc_id, uid)
CanUpdateDocument(doc_id, uid) == is_document_collaborator(doc_id, uid)

\* Policy "Collaborators can insert edits".
CanInsertEdit(row, uid) == is_document_collaborator(row.document_id, uid)

\* gen_random_uuid() for a new documents row: an identifier not in use.
NewDocId ==
    CHOOSE n \in 1..(Cardinality(documents) + 1) :
        /\ \A d \in documents : d.id # n
        /\ \A m \in 1..(n - 1) : \E d \in documents : d.id = m

SelectEarliestOwned(owner, uid) ==
    LET visible == {d \in documents :
                      d.owner_id = owner /\ CanSelectDocument(d.id, uid)}
    IN  IF visible = {} THEN NoDoc
        ELSE CHOOSE d \in visible :
                 \A e \in visible : d.updated_at <= e.updated_at

\* select * from documents where owner_id = owner
\*   order by updated_at desc limit 1, as seen by uid.
SelectLatestOwned(owner, uid) ==
    LET visible == {d \in documents :
                      d.owner_id = owner /\ CanSelectDocument(d.id, uid)}
    IN  IF visible = {} THEN NoDoc
        ELSE CHOOSE d \in visible :
                 \A e \in visible : e.updated_at <= d.updated_at

\* update documents set <fields> where id = doc_id, as uid; the trigger
\* update_documents_updated_at stamps updated_at.  Rows the policy hides
\* from uid are not updated, and this is no error.
UpdatedDocuments(doc_id, uid, newContent, setContent, newTitle, setTitle, now) ==
    {IF d.id = doc_id /\ CanUpdateDocument(doc_id, uid)
     THEN [d EXCEPT !.content = IF setContent THEN newContent ELSE @,
                    !.title = IF setTitle THEN newTitle ELSE @,
                    !.updated_at = now]
     ELSE d : d \in documents}

\* Backend contents a session can start from: nothing yet, or rows left by
\* earlier sessions (one account may own several documents).
SeedDocuments ==
    {[id |-> 1, owner_id |-> Me, title |-> "Old", content |-> "<p>old</p>",
      updated_at |-> 3],
     [id |-> 2, owner_id |-> Me, title |-> UntitledDocument,
      content |-> defaultContent, updated_at |-> 2],
     [id |-> 3, owner_id |-> Other, title |-> UntitledDocument,
      content |-> defaultContent, updated_at |-> 4]}
SeedEdits ==
    <<[document_id |-> 1, user_id |-> Me, action |-> "created"],
      [document_id |-> 2, user_id |-> Me, action |-> "created"],
      [document_id |-> 3, user_id |-> Other, action |-> "created"]>>

\* --------------------------------------------------------------- the hook

NoTimer == [on |-> FALSE, left |-> 0, doc |-> 0, usr |-> NoUser]

\* A call record: op, stage = the request awaited ("done" when the operation
\* has returned), res = its response ("none" while the request is in flight),
\* doc/usr = document.id and user.id of the closure, caller = auth.uid() of
\* the request, content/title/action = arguments, row = the row returned.
NewCall(op, stage, docId, usr) ==
    [op |-> op, stage |-> stage, res |-> "none", doc |-> docId, usr |-> usr,
     caller |-> usr, content |-> "", title |-> "", action |-> "",
     row |-> NoDoc, outcome |-> "", toasted |-> FALSE]

InFlight(c) == c.stage # "done"

Toast(msg) == toasts' = [toasts EXCEPT ![msg] = @ + 1]

OnUpdateKeepingLogTimer(d, u, html) ==
    /\ saveTimeoutRef' = [on |-> TRUE, left |-> SaveDelay, doc |-> d.id, usr |-> u]
    /\ editLogTimeoutRef' =
         IF editLogTimeoutRef.on THEN editLogTimeoutRef
         ELSE [on |-> TRUE, left |-> LogDelay, doc |-> d.id, usr |-> u]
    /\ sinceUpdate' = 0
    /\ savesSinceUpdate' = 0
    /\ logsSinceUpdate' = 0
    /\ lastUpdateContent' = html

\* onUpdate: both timers are cleared and set again; the callbacks close over
\* the saveDocument and logEdit of the current render (document d, user u).
OnUpdate(d, u, html) ==
    /\ saveTimeoutRef' = [on |-> TRUE, left |-> SaveDelay, doc |-> d.id, usr |-> u]
    /\ editLogTimeoutRef' = [on |-> TRUE, left |-> LogDelay, doc |-> d.id, usr |-> u]
    /\ sinceUpdate' = 0
    /\ savesSinceUpdate' = 0
    /\ logsSinceUpdate' = 0
    /\ lastUpdateContent' = html

\* The content-loading effect, run when document?.content has changed:
\* a truthy content is put into the editor.
ContentEffect(newDoc) ==
    IF newDoc.content # document.content /\ newDoc.content # ""
    THEN /\ editorContent' = Normalize(newDoc.content)
         /\ IF emitUpdate
            THEN OnUpdate(newDoc, user, Normalize(newDoc.content))
            ELSE UNCHANGED <<timerVars, observerVars>>
    ELSE UNCHANGED editorVars

\* setDocument(newDoc), the render it causes and that render's effects; a
\* component that has unmounted keeps no state and runs no effect.
SetDocument(newDoc) ==
    IF mounted
    THEN /\ document' = newDoc
         /\ ContentEffect(newDoc)
    ELSE UNCHANGED <<document, editorVars>>

\* FileImportDialog as constructed: useState<File | null>(null), nothing
\* notified yet. selectedFile is the file's name ("" for null) with its
\* converted html; onImport and imported count the calls of onImport and of
\* toast.success("Imported: ..."); error is the dialog's latest toast.error.
NoFile == [html |-> "", name |-> ""]
NoDialog == [selectedFile |-> NoFile, onImport |-> 0, imported |-> 0,
             error |-> ""]

\* No request has been sent to the API directly.
NoRequest == [uid |-> NoUser, op |-> "", doc |-> 0, admitted |-> FALSE]

\* The client after construction: the hook's and the components' initial
\* state, nothing requested yet, the history panel not rendered.
InitClient ==
    /\ user \in {NoUser, Me}
    /\ effectPending = TRUE
    /\ document = NoDoc
    /\ isLoading = TRUE
    /\ isSaving = FALSE
    /\ toasts = [m \in ToastMessages |-> 0]
    /\ calls = <<>>
    /\ emitUpdate \in BOOLEAN
    /\ editorContent = ""
    /\ saveTimeoutRef = NoTimer
    /\ editLogTimeoutRef = NoTimer
    /\ lastSaved = 0
    /\ sinceUpdate = 0
    /\ savesSinceUpdate = 0
    /\ logsSinceUpdate = 0
    /\ lastUpdateContent = ""
    /\ panelMounted = FALSE
    /\ documentId = 0
    /\ edits = <<>>
    /\ historyLoading = FALSE
    /\ channels = <<>>
    /\ notifications = 0
    /\ fetches = <<>>
    /\ request = NoRequest
    /\ dialog = NoDialog
    /\ mounted = TRUE

Init ==
    /\ \/ /\ documents = {}
          /\ document_edits = <<>>
          /\ clock = 0
       \/ /\ documents = SeedDocuments
          /\ document_edits = SeedEdits
          /\ clock = 4
    /\ document_shares = {}
    /\ InitClient

\* useAuth delivers a user object (sign-in, refreshed session) or null.
AuthChange(u) ==
    /\ ~effectPending
    /\ Len(calls) < MaxCalls
    /\ u # NoUser \/ user # NoUser
    /\ user' = u
    /\ effectPending' = TRUE
    /\ UNCHANGED <<backendVars, clock, hookVars, toasts, calls, emitUpdate,
                   historyVars, request,
                   dialog, mounted, editorVars, lastSaved>>

\* useEffect(() => { initDocument() }, [initDocument]): initDocument up to
\* its first await.
InitDocument ==
    /\ effectPending
    /\ effectPending' = FALSE
    /\ IF user = NoUser
       THEN /\ isLoading' = FALSE
            /\ calls' = Append(calls,
                 [NewCall("init", "done", 0, NoUser) EXCEPT !.outcome = "nouser"])
       ELSE /\ calls' = Append(calls, NewCall("init", "fetch", 0, user))
            /\ UNCHANGED isLoading
    /\ UNCHANGED <<backendVars, clock, user, document, isSaving, toasts,
                   emitUpdate, historyVars, request,
                   dialog, mounted, editorVars, lastSaved>>

\* ------------------------------------------------- the backend's own steps

\* The request of call i is in flight.
Awaiting(i) ==
    /\ ~effectPending
    /\ InFlight(calls[i])
    /\ calls[i].res = "none"

\* What a step of the backend leaves alone.
clientVars == <<user, effectPending, document, isLoading, isSaving, toasts,
                emitUpdate, historyVars, request,
                dialog, mounted, editorContent,
                saveTimeoutRef, editLogTimeoutRef, lastSaved, sinceUpdate,
                savesSinceUpdate, logsSinceUpdate, lastUpdateContent>>

\* The request of call i fails: an error result or a rejected call.
BackendFails(i, r) ==
    /\ Awaiting(i)
    /\ calls' = [calls EXCEPT ![i].res = r]
    /\ UNCHANGED <<backendVars, clock, clientVars>>

\* documents.select("*").eq("owner_id", user.id).order(...).limit(1)
BackendFetch(i) ==
    /\ Awaiting(i)
    /\ calls[i].stage = "fetch"
    /\ calls' = [calls EXCEPT
                   ![i].res = "ok",
                   ![i].row = SelectLatestOwned(calls[i].usr, calls[i].caller)]
    /\ UNCHANGED <<backendVars, clock, clientVars>>

InsertedDocumentWithoutContent(owner, now) ==
    [id |-> NewDocId, owner_id |-> owner, title |-> UntitledDocument,
     content |-> "", updated_at |-> now]

\* The row of insert({owner_id: user.id, title: "Untitled Document",
\* content: defaultContent}).
InsertedDocument(owner, now) ==
    [id |-> NewDocId, owner_id |-> owner, title |-> UntitledDocument,
     content |-> defaultContent, updated_at |-> now]

\* documents.insert({owner_id, title, content}).select().single()
BackendCreate(i) ==
    /\ Awaiting(i)
    /\ calls[i].stage = "create"
    /\ LET row == InsertedDocument(calls[i].usr, clock + 1)
       IN  IF CanInsertDocument(row, calls[i].caller)
           THEN /\ documents' = documents \cup {row}
                /\ clock' = clock + 1
                /\ calls' = [calls EXCEPT ![i].res = "ok", ![i].row = row]
           ELSE /\ calls' = [calls EXCEPT ![i].res = "err"]
                /\ UNCHANGED <<documents, clock>>
    /\ UNCHANGED <<document_edits, document_shares, clientVars>>

\* document_edits.insert({document_id, user_id, action})
InsertedEditKeepingOnePerDocument(row) ==
    LET kept == {k \in DOMAIN document_edits :
                   document_edits[k].document_id # row.document_id}
    IN  IF kept = DOMAIN document_edits
        THEN Append(document_edits, row)
        ELSE Append(SubSeq(document_edits, 1, Len(document_edits) - 1), row)

\* insert into document_edits: the table with the new row.
InsertedEdit(row) == Append(document_edits, row)

BackendLogInsert(i) ==
    /\ Awaiting(i)
    /\ calls[i].stage = "log"
    /\ LET row == [document_id |-> calls[i].doc, user_id |-> calls[i].usr,
                   action |-> calls[i].action]
       IN  IF CanInsertEdit(row, calls[i].caller)
           THEN /\ document_edits' = InsertedEdit(row)
                /\ calls' = [calls EXCEPT ![i].res = "ok"]
           ELSE /\ calls' = [calls EXCEPT ![i].res = "err"]
                /\ UNCHANGED document_edits
    /\ UNCHANGED <<documents, document_shares, clock, clientVars>>

\* documents.update({content}) / ({title}) / ({content, title}).eq("id", id)
BackendUpdate(i) ==
    /\ Awaiting(i)
    /\ calls[i].stage = "update"
    /\ documents' = UpdatedDocuments(calls[i].doc, calls[i].caller,
                        calls[i].content, calls[i].op \in {"save", "import"},
                        IF calls[i].op = "import" THEN StripExt(calls[i].title)
                        ELSE calls[i].title,
                        calls[i].op \in {"title", "import"}, clock + 1)
    /\ clock' = clock + 1
    /\ calls' = [calls EXCEPT ![i].res = "ok"]
    /\ UNCHANGED <<document_edits, document_shares, clientVars>>

\* ------------------------------------------------ initDocument, continued

\* The operation has returned: what is kept of it is its document, its
\* outcome, whether it notified the user, and its last response.
Finished(c, outcome, toasted) ==
    [NewCall(c.op, "done", c.doc, NoUser) EXCEPT
        !.res = c.res, !.outcome = outcome, !.toasted = toasted]

\* The next request of an operation: it carries the session of the moment.
NextRequest(c, stage) ==
    [c EXCEPT !.stage = stage, !.res = "none", !.caller = user]

\* The request of call i has been answered.
Answered(i) ==
    /\ ~effectPending
    /\ InFlight(calls[i])
    /\ calls[i].res # "none"

\* What no continuation of a hook operation touches.
shellVars == <<user, effectPending, emitUpdate, historyVars, request,
               dialog, mounted, lastSaved>>

InitFailedStillLoading(i, outcome) ==
    /\ Toast(FailedToLoad)
    /\ calls' = [calls EXCEPT ![i] = Finished(@, outcome, TRUE)]
    /\ UNCHANGED <<document, isLoading, editorVars>>

\* initDocument's catch and finally after `throw fetchError` or
\* `throw createError`: toast.error(...); setIsLoading(false).
InitFailed(i, outcome) ==
    /\ Toast(FailedToLoad)
    /\ isLoading' = FALSE
    /\ calls' = [calls EXCEPT ![i] = Finished(@, outcome, TRUE)]
    /\ UNCHANGED <<document, editorVars>>

\* After `await ...select...limit(1)`.
ResumeInitFetch(i) ==
    /\ Answered(i)
    /\ calls[i].op = "init" /\ calls[i].stage = "fetch"
    /\ IF calls[i].res # "ok"
       THEN InitFailed(i, "queryfail")
       ELSE IF calls[i].row # NoDoc
       THEN \* setDocument(docs[0]); finally: setIsLoading(false)
            /\ SetDocument(calls[i].row)
            /\ isLoading' = FALSE
            /\ calls' = [calls EXCEPT ![i] = Finished(@, "found", FALSE)]
            /\ UNCHANGED toasts
       ELSE \* no document yet: insert one
            /\ calls' = [calls EXCEPT ![i] = NextRequest(@, "create")]
            /\ UNCHANGED <<document, isLoading, toasts, editorVars>>
    /\ UNCHANGED <<shellVars, backendVars, clock, isSaving>>

\* After `await ...insert(...).select().single()`.
ResumeInitCreate(i) ==
    /\ Answered(i)
    /\ calls[i].op = "init" /\ calls[i].stage = "create"
    /\ IF calls[i].res # "ok"
       THEN InitFailed(i, "createfail")
       ELSE \* setDocument(newDoc); log the creation
            /\ SetDocument(calls[i].row)
            /\ calls' = [calls EXCEPT
                 ![i] = [NextRequest(@, "log") EXCEPT
                            !.doc = calls[i].row.id, !.action = "created"]]
            /\ UNCHANGED <<isLoading, toasts>>
    /\ UNCHANGED <<shellVars, backendVars, clock, isSaving>>

\* After `await supabase.from("document_edits").insert(...)`: the result is
\* not looked at; a rejected call lands in the catch block.
ResumeInitLog(i) ==
    /\ Answered(i)
    /\ calls[i].op = "init" /\ calls[i].stage = "log"
    /\ IF calls[i].res = "reject"
       THEN /\ Toast(FailedToLoad)
            /\ calls' = [calls EXCEPT ![i] = Finished(@, "created", TRUE)]
       ELSE /\ calls' = [calls EXCEPT ![i] = Finished(@, "created", FALSE)]
            /\ UNCHANGED toasts
    /\ isLoading' = FALSE
    /\ UNCHANGED <<shellVars, backendVars, clock, document, isSaving, editorVars>>

\* ---------------------------------------------------------- saveDocument

SaveDocumentUnguarded(docId, u, content) ==
    /\ isSaving' = TRUE
    /\ calls' = Append(calls, [NewCall("save", "update", docId, u) EXCEPT
                                 !.content = content, !.caller = user])

\* saveDocument(content) of the render with document d and user u, up to its
\* await: `if (!document || !user) return; setIsSaving(true); ...update...`.
SaveDocument(docId, u, content) ==
    IF docId = 0 \/ u = NoUser
    THEN /\ calls' = Append(calls, Finished(NewCall("save", "done", docId, u), "noop", FALSE))
         /\ UNCHANGED isSaving
    ELSE /\ isSaving' = TRUE
         /\ calls' = Append(calls, [NewCall("save", "update", docId, u) EXCEPT
                                      !.content = content, !.caller = user])

SavedLocallyWithoutTitle(prev, content, now) ==
    IF prev = NoDoc THEN NoDoc
    ELSE [prev EXCEPT !.content = content, !.title = "", !.updated_at = now]

\* prev => prev ? {...prev, content, updated_at: new Date().toISOString()} : null
SavedLocally(prev, content, now) ==
    IF prev = NoDoc THEN NoDoc
    ELSE [prev EXCEPT !.content = content, !.updated_at = now]

SaveFailedKeepsSaving(i) ==
    /\ Toast(FailedToSave)
    /\ calls' = [calls EXCEPT ![i] = Finished(@, "failed", TRUE)]
    /\ UNCHANGED <<document, isSaving, editorVars>>

\* saveDocument's catch and finally after `throw error`:
\* toast.error(...); setIsSaving(false).
SaveFailed(i) ==
    /\ Toast(FailedToSave)
    /\ isSaving' = FALSE
    /\ calls' = [calls EXCEPT ![i] = Finished(@, "failed", TRUE)]
    /\ UNCHANGED <<document, editorVars>>

\* After `await ...update({ content })...`.
ResumeSave(i) ==
    /\ Answered(i)
    /\ calls[i].op = "save" /\ calls[i].stage = "update"
    /\ IF calls[i].res = "ok"
       THEN /\ SetDocument(SavedLocally(document, calls[i].content, clock))
            /\ isSaving' = FALSE
            /\ calls' = [calls EXCEPT ![i] = Finished(@, "saved", FALSE)]
            /\ UNCHANGED toasts
       ELSE SaveFailed(i)
    /\ UNCHANGED <<shellVars, backendVars, clock, isLoading>>

\* ------------------------------------------------------------ updateTitle

\* updateTitle(title) up to its await.
UpdateTitle(docId, u, title) ==
    IF docId = 0 \/ u = NoUser
    THEN calls' = Append(calls, Finished(NewCall("title", "done", docId, u), "noop", FALSE))
    ELSE calls' = Append(calls, [NewCall("title", "update", docId, u) EXCEPT
                                   !.title = title, !.caller = user])

TitleLoggedAsEdited == "edited"

\* action: "title_changed"
TitleChangedAction == "title_changed"

\* After `await ...update({ title })...`.
ResumeTitleUpdate(i) ==
    /\ Answered(i)
    /\ calls[i].op = "title" /\ calls[i].stage = "update"
    /\ IF calls[i].res = "ok"
       THEN \* setDocument(prev => prev ? {...prev, title} : null); log it
            /\ SetDocument(IF document = NoDoc THEN NoDoc
                           ELSE [document EXCEPT !.title = calls[i].title])
            /\ calls' = [calls EXCEPT
                 ![i] = [NextRequest(@, "log") EXCEPT !.action = TitleChangedAction]]
            /\ UNCHANGED toasts
       ELSE /\ Toast(FailedToUpdateTitle)
            /\ calls' = [calls EXCEPT ![i] = Finished(@, "failed", TRUE)]
            /\ UNCHANGED <<document, editorVars>>
    /\ UNCHANGED <<shellVars, backendVars, clock, isLoading, isSaving>>

\* After the "title_changed" insert.
ResumeTitleLog(i) ==
    /\ Answered(i)
    /\ calls[i].op = "title" /\ calls[i].stage = "log"
    /\ IF calls[i].res = "reject"
       THEN /\ Toast(FailedToUpdateTitle)
            /\ calls' = [calls EXCEPT ![i] = Finished(@, "updated", TRUE)]
       ELSE /\ calls' = [calls EXCEPT ![i] = Finished(@, "updated", FALSE)]
            /\ UNCHANGED toasts
    /\ UNCHANGED <<shellVars, backendVars, clock, hookVars, editorVars>>

\* ---------------------------------------------------------------- logEdit

\* logEdit(action) up to its await.
LogEdit(docId, u, action) ==
    IF docId = 0 \/ u = NoUser
    THEN calls' = Append(calls, Finished(NewCall("log", "done", docId, u), "noop", FALSE))
    ELSE calls' = Append(calls, [NewCall("log", "log", docId, u) EXCEPT
                                   !.action = action, !.caller = user])

ResumeLogEditNotifying(i) ==
    /\ Answered(i)
    /\ calls[i].op = "log" /\ calls[i].stage = "log"
    /\ IF calls[i].res = "ok"
       THEN /\ calls' = [calls EXCEPT ![i] = Finished(@, "logged", FALSE)]
            /\ UNCHANGED toasts
       ELSE /\ calls' = [calls EXCEPT ![i] = Finished(@, "logged", TRUE)]
            /\ Toast(FailedToSave)
    /\ UNCHANGED <<shellVars, backendVars, clock, hookVars, editorVars>>

\* After the insert: the result is not looked at, a rejection is only logged
\* to the console.
ResumeLogEdit(i) ==
    /\ Answered(i)
    /\ calls[i].op = "log" /\ calls[i].stage = "log"
    /\ calls' = [calls EXCEPT ![i] = Finished(@, "logged", FALSE)]
    /\ UNCHANGED <<shellVars, backendVars, clock, hookVars, toasts, editorVars>>

\* ---------------------------------------------------------- importContent

\* importContent(content, fileName) up to its await.
ImportContent(docId, u, content, fileName) ==
    IF docId = 0 \/ u = NoUser
    THEN calls' = Append(calls, Finished(NewCall("import", "done", docId, u), "noop", FALSE))
    ELSE calls' = Append(calls, [NewCall("import", "update", docId, u) EXCEPT
                                   !.content = content, !.title = fileName,
                                   !.caller = user])

ResumeImportUpdateLoggingAnyway(i) ==
    /\ Answered(i)
    /\ calls[i].op = "import" /\ calls[i].stage = "update"
    /\ IF calls[i].res = "ok"
       THEN /\ SetDocument(IF document = NoDoc THEN NoDoc
                           ELSE [document EXCEPT
                                   !.content = calls[i].content,
                                   !.title = StripExt(calls[i].title),
                                   !.updated_at = clock])
            /\ UNCHANGED toasts
       ELSE /\ Toast(FailedToImport)
            /\ UNCHANGED <<document, editorVars>>
    /\ calls' = [calls EXCEPT
         ![i] = [NextRequest(@, "log") EXCEPT !.action = "imported"]]
    /\ UNCHANGED <<shellVars, backendVars, clock, isLoading, isSaving>>

\* After `await ...update({ content, title })...`.
ResumeImportUpdate(i) ==
    /\ Answered(i)
    /\ calls[i].op = "import" /\ calls[i].stage = "update"
    /\ IF calls[i].res = "ok"
       THEN /\ SetDocument(IF document = NoDoc THEN NoDoc
                           ELSE [document EXCEPT
                                   !.content = calls[i].content,
                                   !.title = StripExt(calls[i].title),
                                   !.updated_at = clock])
            /\ calls' = [calls EXCEPT
                 ![i] = [NextRequest(@, "log") EXCEPT !.action = "imported"]]
            /\ UNCHANGED toasts
       ELSE /\ Toast(FailedToImport)
            /\ calls' = [calls EXCEPT ![i] = Finished(@, "failed", TRUE)]
            /\ UNCHANGED <<document, editorVars>>
    /\ UNCHANGED <<shellVars, backendVars, clock, isLoading, isSaving>>

\* After the "imported" insert.
ResumeImportLog(i) ==
    /\ Answered(i)
    /\ calls[i].op = "import" /\ calls[i].stage = "log"
    /\ IF calls[i].res = "reject"
       THEN /\ Toast(FailedToImport)
            /\ calls' = [calls EXCEPT ![i] = Finished(@, "imported", TRUE)]
       ELSE /\ calls' = [calls EXCEPT ![i] = Finished(@, "imported", FALSE)]
            /\ UNCHANGED toasts
    /\ UNCHANGED <<shellVars, backendVars, clock, hookVars, editorVars>>

\* ------------------------------------------------------- the editor shell

\* The editor, header and dialogs are rendered once docLoading is false.
Shown == mounted /\ ~isLoading /\ ~effectPending

\* What the header's title input shows: document?.title || "Untitled Document".
DisplayedTitle ==
    IF document = NoDoc \/ document.title = "" THEN UntitledDocument
    ELSE document.title

\* The user edits the text: the editor emits "update".
EditorUpdate(html) ==
    /\ Shown
    /\ html # editorContent
    /\ editorContent' = html
    /\ OnUpdate(document, user, html)
    /\ UNCHANGED <<backendVars, clock, user, effectPending, hookVars, toasts,
                   calls, emitUpdate, historyVars, request,
                   dialog, mounted, lastSaved>>

\* Ticks until the next pending timer is due (0 when none is pending).
NextDue ==
    IF saveTimeoutRef.on /\ editLogTimeoutRef.on
    THEN IF saveTimeoutRef.left <= editLogTimeoutRef.left
         THEN saveTimeoutRef.left ELSE editLogTimeoutRef.left
    ELSE IF saveTimeoutRef.on THEN saveTimeoutRef.left
    ELSE IF editLogTimeoutRef.on THEN editLogTimeoutRef.left
    ELSE 0

\* n ticks of 500 ms pass; a timer that is due runs before more time passes.
Elapse(n) ==
    /\ ~effectPending
    /\ n > 0
    /\ saveTimeoutRef.on \/ editLogTimeoutRef.on
    /\ n <= NextDue
    /\ saveTimeoutRef' = IF saveTimeoutRef.on
                         THEN [saveTimeoutRef EXCEPT !.left = @ - n]
                         ELSE saveTimeoutRef
    /\ editLogTimeoutRef' = IF editLogTimeoutRef.on
                            THEN [editLogTimeoutRef EXCEPT !.left = @ - n]
                            ELSE editLogTimeoutRef
    /\ sinceUpdate' = sinceUpdate + n
    /\ UNCHANGED <<backendVars, clock, user, effectPending, hookVars, toasts,
                   calls, emitUpdate, historyVars, request,
                   dialog, mounted, editorContent, lastSaved,
                   savesSinceUpdate, logsSinceUpdate, lastUpdateContent>>

\* One tick passes.
Tick == Elapse(1)

\* Time passes until the next pending timer is due.
Advance == Elapse(NextDue)

\* The save timer runs: saveDocument(editor.getHTML()); setLastSaved(new Date()).
SaveTimerFires ==
    /\ ~effectPending
    /\ saveTimeoutRef.on /\ saveTimeoutRef.left = 0
    /\ Len(calls) < MaxCalls
    /\ SaveDocument(saveTimeoutRef.doc, saveTimeoutRef.usr, editorContent)
    /\ lastSaved' = clock + 1
    /\ clock' = clock + 1
    /\ saveTimeoutRef' = NoTimer
    /\ savesSinceUpdate' = savesSinceUpdate + 1
    /\ UNCHANGED <<backendVars, user, effectPending, document, isLoading,
                   toasts, emitUpdate, historyVars, request,
                   dialog, mounted, editorContent,
                   editLogTimeoutRef, sinceUpdate, logsSinceUpdate,
                   lastUpdateContent>>

\* The edit-log timer runs: logEdit("edited").
LogTimerFires ==
    /\ ~effectPending
    /\ editLogTimeoutRef.on /\ editLogTimeoutRef.left = 0
    /\ Len(calls) < MaxCalls
    /\ LogEdit(editLogTimeoutRef.doc, editLogTimeoutRef.usr, "edited")
    /\ editLogTimeoutRef' = NoTimer
    /\ logsSinceUpdate' = logsSinceUpdate + 1
    /\ UNCHANGED <<backendVars, clock, user, effectPending, hookVars, toasts,
                   emitUpdate, historyVars, request,
                   dialog, mounted, editorContent,
                   saveTimeoutRef, lastSaved, sinceUpdate, savesSinceUpdate,
                   lastUpdateContent>>

\* The user types in the header's title input: onTitleChange(e.target.value).
TitleChange(title) ==
    /\ Shown
    /\ title # DisplayedTitle
    /\ Len(calls) < MaxCalls
    /\ UpdateTitle(document.id, user, title)
    /\ UNCHANGED <<backendVars, clock, user, effectPending, hookVars, toasts,
                   emitUpdate, historyVars, request,
                   dialog, mounted, editorVars, lastSaved>>

\* FileImportDialog: the extension test of handleFileSelect and handleDrop.
AcceptsFile(name) ==
    LET dots == {i \in 1..Len(name) : SubSeq(name, i, i) = "."}
        last == IF dots = {} THEN 0
                ELSE CHOOSE i \in dots : \A j \in dots : j <= i
        ext == Lower(SubSeq(name, last + 1, Len(name)))
    IN  ext = "doc" \/ ext = "docx"

\* handleImportFile(html, fileName): editor.commands.setContent(html);
\* importContent(html, fileName).
HandleImportFile(f) ==
    /\ editorContent' = Normalize(f.html)
    /\ IF emitUpdate
       THEN OnUpdate(document, user, Normalize(f.html))
       ELSE UNCHANGED <<timerVars, observerVars>>
    /\ ImportContent(document.id, user, f.html, f.name)

\* handleImport with a selected file whose conversion succeeds:
\* onImport(result.value, selectedFile.name); toast.success(...);
\* handleClose().
Imported ==
    [dialog EXCEPT !.selectedFile = NoFile, !.onImport = @ + 1,
                   !.imported = @ + 1]

\* The user picks an accepted file f in the import dialog and presses
\* Import, and the conversion succeeds: handleFileSelect, then handleImport
\* calling handleImportFile with the converted file.
ImportFile(f) ==
    /\ Shown
    /\ AcceptsFile(f.name)
    /\ Len(calls) < MaxCalls
    /\ HandleImportFile(f)
    /\ dialog' = Imported
    /\ UNCHANGED <<backendVars, clock, user, effectPending, hookVars, toasts,
                   emitUpdate, historyVars, request, mounted, lastSaved>>

EditorUnmountKeepingLogTimer ==
    /\ mounted
    /\ mounted' = FALSE
    /\ saveTimeoutRef' = NoTimer
    /\ UNCHANGED <<backendVars, clock, user, effectPending, hookVars, toasts,
                   calls, emitUpdate, historyVars, request, dialog,
                   editorContent, editLogTimeoutRef, observerVars, lastSaved>>

\* CollaborativeEditor unmounts; the cleanup effect clears both timers:
\* if (saveTimeoutRef.current) clearTimeout(saveTimeoutRef.current); the
\* same for editLogTimeoutRef.
EditorUnmount ==
    /\ mounted
    /\ mounted' = FALSE
    /\ saveTimeoutRef' = NoTimer
    /\ editLogTimeoutRef' = NoTimer
    /\ UNCHANGED <<backendVars, clock, user, effectPending, hookVars, toasts,
                   calls, emitUpdate, historyVars, request, dialog,
                   editorContent, observerVars, lastSaved>>

\* What the dialog's own handlers leave alone.
dialogAppVars == <<backendVars, clock, user, effectPending, hookVars, toasts,
                   calls, emitUpdate, historyVars, request, mounted,
                   editorVars, lastSaved>>

\* handleFileSelect (the file input) or handleDrop with file f: an accepted
\* file becomes selectedFile; a refused one raises toast.error, and the file
\* input also clears selectedFile.
DialogSelect(f, dropped) ==
    /\ Shown
    /\ dialog' =
         IF AcceptsFile(f.name) THEN [dialog EXCEPT !.selectedFile = f]
         ELSE IF dropped THEN [dialog EXCEPT !.error = PleaseDrop]
         ELSE [dialog EXCEPT !.error = PleaseSelect, !.selectedFile = NoFile]
    /\ UNCHANGED dialogAppVars

\* handleImport: with no selected file it raises toast.error and returns;
\* otherwise the file is converted and handed to onImport.
DialogImport ==
    /\ Shown
    /\ IF dialog.selectedFile = NoFile
       THEN /\ dialog' = [dialog EXCEPT !.error = PleaseSelectFirst]
            /\ UNCHANGED dialogAppVars
       ELSE /\ Len(calls) < MaxCalls
            /\ HandleImportFile(dialog.selectedFile)
            /\ dialog' = Imported
            /\ UNCHANGED <<backendVars, clock, user, effectPending, hookVars,
                           toasts, emitUpdate, historyVars, request, mounted,
                           lastSaved>>

\* handleImport whose arrayBuffer() or mammoth.convertToHtml rejects: the
\* catch raises toast.error; onImport is not called and the file stays
\* selected.
DialogConvertFails ==
    /\ Shown
    /\ dialog.selectedFile # NoFile
    /\ dialog' = [dialog EXCEPT !.error = FailedToConvert]
    /\ UNCHANGED dialogAppVars

\* ----------------------------------------------------- the history panel

\* public.profiles; "" stands for NULL.
profiles ==
    {[user_id |-> "u1", display_name |-> "Alice", email |-> "alice@x.com"],
     [user_id |-> "u2", display_name |-> "", email |-> "bob@x.com"],
     [user_id |-> "u3", display_name |-> "", email |-> ""]}

\* The edit log of a document several people have worked on: u4 has no
\* profile row, and one row's user has been deleted (user_id NULL).
HistoryEdits ==
    SeedEdits \o
    <<[document_id |-> 1, user_id |-> "u2", action |-> "edited"],
      [document_id |-> 1, user_id |-> NoUser, action |-> "edited"],
      [document_id |-> 1, user_id |-> "u3", action |-> "edited"],
      [document_id |-> 1, user_id |-> "u4", action |-> "edited"]>>

HistoryShares == {[document_id |-> 1, user_id |-> Other]}

\* Policy "Collaborators can view edits".
CanSelectEdit(row, uid) == is_document_collaborator(row.document_id, uid)

RECURSIVE NewestFirst(_)
\* The rows at the given positions of document_edits, latest created_at first.
NewestFirst(idx) ==
    IF idx = {} THEN <<>>
    ELSE LET k == CHOOSE i \in idx : \A j \in idx : j <= i
         IN  <<[action |-> document_edits[k].action,
                user_id |-> document_edits[k].user_id,
                created_at |-> k]>> \o NewestFirst(idx \ {k})

\* select id, action, created_at, user_id from document_edits
\*   where document_id = doc order by created_at desc limit 50, as seen by uid.
SelectEdits(doc, uid) ==
    LET rows == NewestFirst({k \in DOMAIN document_edits :
                               /\ document_edits[k].document_id = doc
                               /\ CanSelectEdit(document_edits[k], uid)})
    IN  IF Len(rows) <= HistoryLimit THEN rows ELSE SubSeq(rows, 1, HistoryLimit)

\* [...new Set(editsData.map(e => e.user_id).filter(Boolean))]
UserIds(editsData) ==
    {editsData[k].user_id : k \in DOMAIN editsData} \ {NoUser}

\* select user_id, display_name, email from profiles where user_id in ids;
\* policy "Users can view all profiles".
SelectProfiles(ids) == {p \in profiles : p.user_id \in ids}

\* profilesMap[edit.user_id]?.field || null
ProfileField(profilesData, uid, field) ==
    IF \E p \in profilesData : p.user_id = uid
    THEN (CHOOSE p \in profilesData : p.user_id = uid)[field]
    ELSE ""

\* The rows of editsData with the display name and email of their users.
Combined(editsData, profilesData) ==
    [k \in DOMAIN editsData |->
        [action |-> editsData[k].action,
         user_id |-> editsData[k].user_id,
         created_at |-> editsData[k].created_at,
         user_display_name |->
             ProfileField(profilesData, editsData[k].user_id, "display_name"),
         user_email |->
             ProfileField(profilesData, editsData[k].user_id, "email")]]

\* email.split("@")[0]
LocalPart(email) ==
    LET ats == {i \in 1..Len(email) : SubSeq(email, i, i) = "@"}
    IN  IF ats = {} THEN email
        ELSE SubSeq(email, 1, (CHOOSE i \in ats : \A j \in ats : i <= j) - 1)

UnknownUser == "Unknown user"

getUserName(edit) ==
    IF edit.user_display_name # "" THEN edit.user_display_name
    ELSE IF edit.user_email # "" THEN LocalPart(edit.user_email)
    ELSE UnknownUser

\* What the panel does not touch.
editorAppVars == <<documents, document_shares, clock, user, effectPending,
                   hookVars, toasts, calls, emitUpdate, editorVars, lastSaved,
                   request, dialog, mounted>>

NewFetch(doc) ==
    [doc |-> doc, stage |-> "edits", res |-> "none", editsData |-> <<>>,
     profilesData |-> {}]

FetchDone(f) == [NewFetch(f.doc) EXCEPT !.stage = "done", !.res = f.res]

\* fetchHistory() of the render with documentId d, up to its first await.
FetchHistory(d) ==
    IF d = 0
    THEN UNCHANGED <<fetches, historyLoading>>
    ELSE /\ Len(fetches) < MaxFetches
         /\ historyLoading' = TRUE
         /\ fetches' = Append(fetches, NewFetch(d))

\* The effect's cleanup, supabase.removeChannel(channel): the subscriptions
\* that remain.
RemoveChannel(d) ==
    IF \E k \in DOMAIN channels : channels[k] = d
    THEN LET k == CHOOSE i \in DOMAIN channels : channels[i] = d
         IN  SubSeq(channels, 1, k - 1) \o SubSeq(channels, k + 1, Len(channels))
    ELSE channels

PanelEffectWithoutCleanup(d) ==
    /\ documentId' = d
    /\ notifications' = 0
    /\ IF d # 0
       THEN /\ FetchHistory(d)
            /\ channels' = Append(channels, d)
       ELSE UNCHANGED <<fetches, historyLoading, channels>>

\* useEffect(..., [documentId]): the cleanup of the previous run, then, for a
\* documentId, fetchHistory() and the subscription to the document's inserts.
PanelEffect(d) ==
    /\ documentId' = d
    /\ notifications' = 0
    /\ IF d # 0
       THEN /\ FetchHistory(d)
            /\ channels' = Append(RemoveChannel(documentId), d)
       ELSE /\ channels' = RemoveChannel(documentId)
            /\ UNCHANGED <<fetches, historyLoading>>

\* The header is rendered: the panel mounts with documentId d.
PanelMount(d) ==
    /\ ~panelMounted
    /\ panelMounted' = TRUE
    /\ PanelEffect(d)
    /\ UNCHANGED <<edits, document_edits, editorAppVars>>

\* The panel is rendered with another documentId.
PanelRender(d) ==
    /\ panelMounted
    /\ d # documentId
    /\ PanelEffect(d)
    /\ UNCHANGED <<panelMounted, edits, document_edits, editorAppVars>>

\* The panel unmounts: the cleanup runs and the component's state is gone.
PanelUnmount ==
    /\ panelMounted
    /\ panelMounted' = FALSE
    /\ documentId' = 0
    /\ channels' = RemoveChannel(documentId)
    /\ notifications' = 0
    /\ edits' = <<>>
    /\ historyLoading' = FALSE
    /\ UNCHANGED <<fetches, document_edits, editorAppVars>>

\* A collaborator's client appends a row to the edit log; realtime delivers
\* the INSERT to the channels filtered to its document.
CollaboratorLogsEdit(u, d) ==
    /\ Len(document_edits) < MaxEdits
    /\ CanInsertEdit([document_id |-> d], u)
    /\ document_edits' =
           InsertedEdit([document_id |-> d, user_id |-> u, action |-> "edited"])
    /\ notifications' =
           notifications + Cardinality({k \in DOMAIN channels : channels[k] = d})
    /\ UNCHANGED <<panelMounted, documentId, edits, historyLoading, channels,
                   fetches, editorAppVars>>

\* The channel's callback: () => { fetchHistory() }.
Notified ==
    /\ notifications > 0
    /\ notifications' = notifications - 1
    /\ documentId # 0
    /\ FetchHistory(documentId)
    /\ UNCHANGED <<panelMounted, documentId, edits, channels, document_edits,
                   editorAppVars>>

HistoryAwaiting(f) ==
    /\ f \in DOMAIN fetches
    /\ fetches[f].stage # "done" /\ fetches[f].res = "none"

HistoryAnswered(f) ==
    /\ f \in DOMAIN fetches
    /\ fetches[f].stage # "done" /\ fetches[f].res # "none"

\* What a step of the backend for the panel leaves alone.
panelClientVars == <<panelMounted, documentId, edits, historyLoading, channels,
                     notifications, document_edits, editorAppVars>>

\* A request of fetchHistory fails: an error result or a rejected call.
HistoryFails(f, r) ==
    /\ HistoryAwaiting(f)
    /\ fetches' = [fetches EXCEPT ![f].res = r]
    /\ UNCHANGED panelClientVars

\* The select on document_edits is answered.
HistorySelectEdits(f) ==
    /\ HistoryAwaiting(f)
    /\ fetches[f].stage = "edits"
    /\ fetches' = [fetches EXCEPT
         ![f].res = "ok", ![f].editsData = SelectEdits(fetches[f].doc, user)]
    /\ UNCHANGED panelClientVars

\* The select on profiles is answered.
HistorySelectProfiles(f) ==
    /\ HistoryAwaiting(f)
    /\ fetches[f].stage = "profiles"
    /\ fetches' = [fetches EXCEPT
         ![f].res = "ok",
         ![f].profilesData = SelectProfiles(UserIds(fetches[f].editsData))]
    /\ UNCHANGED panelClientVars

\* setEdits(combined) and, in finally, setIsLoading(false); a component that
\* has unmounted keeps no state.
SetEdits(combined) ==
    IF panelMounted
    THEN edits' = combined /\ historyLoading' = FALSE
    ELSE UNCHANGED <<edits, historyLoading>>

\* The catch and finally of fetchHistory: the list is left as it is.
HistoryFailed ==
    /\ historyLoading' = (IF panelMounted THEN FALSE ELSE historyLoading)
    /\ UNCHANGED edits

\* fetchHistory after the select on document_edits.
ResumeHistoryEdits(f) ==
    /\ HistoryAnswered(f)
    /\ fetches[f].stage = "edits"
    /\ IF fetches[f].res # "ok"
       THEN /\ HistoryFailed
            /\ fetches' = [fetches EXCEPT ![f] = FetchDone(@)]
       ELSE IF UserIds(fetches[f].editsData) = {}
       THEN /\ SetEdits(Combined(fetches[f].editsData, {}))
            /\ fetches' = [fetches EXCEPT ![f] = FetchDone(@)]
       ELSE /\ fetches' = [fetches EXCEPT ![f].stage = "profiles", ![f].res = "none"]
            /\ UNCHANGED <<edits, historyLoading>>
    /\ UNCHANGED <<panelMounted, documentId, channels, notifications,
                   document_edits, editorAppVars>>

\* fetchHistory after the select on profiles: `const { data: profilesData }`
\* drops an error result, profilesData is then null and the map stays empty.
ResumeHistoryProfiles(f) ==
    /\ HistoryAnswered(f)
    /\ fetches[f].stage = "profiles"
    /\ IF fetches[f].res = "reject"
       THEN HistoryFailed
       ELSE SetEdits(Combined(fetches[f].editsData,
                              IF fetches[f].res = "ok"
                              THEN fetches[f].profilesData ELSE {}))
    /\ fetches' = [fetches EXCEPT ![f] = FetchDone(@)]
    /\ UNCHANGED <<panelMounted, documentId, channels, notifications,
                   document_edits, editorAppVars>>

\* ------------------------------------------- the backend's API, directly

\* auth.uid() of a request: a signed-in account, or NULL with the anon key.
Callers == Users \cup {NoUser}

CanDeleteDocumentAsCollaborator(doc_id, uid) ==
    is_document_collaborator(doc_id, uid)

\* Policy "Only owner can delete documents".
CanDeleteDocument(doc_id, uid) == is_document_owner(doc_id, uid)

\* Policy "Owner can create shares": WITH CHECK
\* (is_document_owner(document_id) AND user_id != auth.uid()).
CanInsertShare(row, uid) ==
    is_document_owner(row.document_id, uid) /\ row.user_id # uid

\* Policy "Owner can delete shares".
CanDeleteShare(row, uid) == is_document_owner(row.document_id, uid)

\* What a request sent to the API directly leaves alone: every client state.
apiClientVars == <<user, effectPending, hookVars, toasts, calls, emitUpdate,
                   historyVars, editorVars, lastSaved, dialog, mounted>>

\* The record of a request: who sent it, what it asked for, for which
\* documents row, and whether the policies let it act on that row.
Requested(uid, op, doc, admitted) ==
    [uid |-> uid, op |-> op, doc |-> doc, admitted |-> admitted]

\* select * from documents where id = doc_id, as uid: the row is returned
\* if the SELECT policy shows it.
ApiSelectDocument(uid, doc_id) ==
    /\ request' = Requested(uid, "select", doc_id,
                      \E d \in documents :
                          d.id = doc_id /\ CanSelectDocument(doc_id, uid))
    /\ UNCHANGED <<backendVars, clock, apiClientVars>>

\* insert into documents (owner_id) values (owner), as uid.
ApiInsertDocument(uid, owner) ==
    /\ Cardinality(documents) < MaxDocs
    /\ clock < MaxClock
    /\ LET row == InsertedDocument(owner, clock + 1)
           admitted == CanInsertDocument(row, uid)
       IN  /\ request' = Requested(uid, "insert", row.id, admitted)
           /\ documents' = IF admitted THEN documents \cup {row} ELSE documents
           /\ clock' = IF admitted THEN clock + 1 ELSE clock
    /\ UNCHANGED <<document_edits, document_shares, apiClientVars>>

\* The row an UPDATE writes: the column set, updated_at stamped by the
\* trigger update_documents_updated_at.
UpdatedRow(d, column, value, now) ==
    [[d EXCEPT ![column] = value] EXCEPT !.updated_at = now]

\* update documents set <column> = value where id = doc_id, as uid.  The
\* UPDATE policy has a USING expression only: it selects the rows that may be
\* updated and, for want of a WITH CHECK, is applied to the new row as well;
\* is_document_collaborator is STABLE and reads the tables as they were when
\* the statement began.  No column is excluded.
ApiUpdateDocument(uid, doc_id, column, value) ==
    /\ clock < MaxClock
    /\ LET admitted == \E d \in documents :
                           d.id = doc_id /\ CanUpdateDocument(doc_id, uid)
       IN  /\ request' = Requested(uid, "update", doc_id, admitted)
           /\ documents' = {IF d.id = doc_id /\ admitted
                            THEN UpdatedRow(d, column, value, clock + 1)
                            ELSE d : d \in documents}
           /\ clock' = IF admitted THEN clock + 1 ELSE clock
    /\ UNCHANGED <<document_edits, document_shares, apiClientVars>>

\* delete from documents where id = doc_id, as uid; the rows of
\* document_edits and document_shares referencing it go with it
\* (ON DELETE CASCADE).
ApiDeleteDocument(uid, doc_id) ==
    LET admitted == \E d \in documents :
                        d.id = doc_id /\ CanDeleteDocument(doc_id, uid)
        Kept(e) == ~(admitted /\ e.document_id = doc_id)
    IN  /\ request' = Requested(uid, "delete", doc_id, admitted)
        /\ documents' = {d \in documents : ~(admitted /\ d.id = doc_id)}
        /\ document_edits' = SelectSeq(document_edits, Kept)
        /\ document_shares' = {s \in document_shares : Kept(s)}
        /\ UNCHANGED <<clock, apiClientVars>>

\* insert into document_shares (document_id, user_id), as uid;
\* UNIQUE(document_id, user_id) refuses a second row for the pair.
ApiInsertShare(uid, doc_id, collaborator) ==
    LET row == [document_id |-> doc_id, user_id |-> collaborator]
        admitted == CanInsertShare(row, uid) /\ row \notin document_shares
    IN  /\ request' = Requested(uid, "share", doc_id, admitted)
        /\ document_shares' =
               IF admitted THEN document_shares \cup {row} ELSE document_shares
        /\ UNCHANGED <<documents, document_edits, clock, apiClientVars>>

\* delete from document_shares where document_id = doc_id and
\* user_id = collaborator, as uid.
ApiDeleteShare(uid, doc_id, collaborator) ==
    LET row == [document_id |-> doc_id, user_id |-> collaborator]
        admitted == row \in document_shares /\ CanDeleteShare(row, uid)
    IN  /\ request' = Requested(uid, "unshare", doc_id, admitted)
        /\ document_shares' =
               IF admitted THEN document_shares \ {row} ELSE document_shares
        /\ UNCHANGED <<documents, document_edits, clock, apiClientVars>>

\* --------------------------------------------------------- specification

\* Steps of the backend.
BackendNext ==
    \/ \E i \in 1..Len(calls) : \E r \in Failures : BackendFails(i, r)
    \/ \E i \in 1..Len(calls) : BackendFetch(i)
    \/ \E i \in 1..Len(calls) : BackendCreate(i)
    \/ \E i \in 1..Len(calls) : BackendLogInsert(i)
    \/ \E i \in 1..Len(calls) : BackendUpdate(i)

\* initDocument, from the effect to its return.
InitNext ==
    \/ InitDocument
    \/ \E i \in 1..Len(calls) : ResumeInitFetch(i)
    \/ \E i \in 1..Len(calls) : ResumeInitCreate(i)
    \/ \E i \in 1..Len(calls) : ResumeInitLog(i)

\* The user edits the text; the debounced save and edit log.
EditNext ==
    \/ \E html \in TypedContents : EditorUpdate(html)
    \/ SaveTimerFires
    \/ LogTimerFires
    \/ \E i \in 1..Len(calls) : ResumeSave(i)
    \/ \E i \in 1..Len(calls) : ResumeLogEdit(i)

\* The user edits the title.
TitleNext ==
    \/ \E title \in TypedTitles : TitleChange(title)
    \/ \E i \in 1..Len(calls) : ResumeTitleUpdate(i)
    \/ \E i \in 1..Len(calls) : ResumeTitleLog(i)

\* The user imports a Word document.
ImportNext ==
    \/ \E f \in ImportFiles : ImportFile(f)
    \/ \E i \in 1..Len(calls) : ResumeImportUpdate(i)
    \/ \E i \in 1..Len(calls) : ResumeImportLog(i)

\* The whole application; time passes from one timer's deadline to the next.
Next ==
    \/ \E u \in {NoUser, Me} : AuthChange(u)
    \/ BackendNext
    \/ InitNext
    \/ EditNext
    \/ Advance
    \/ TitleNext
    \/ ImportNext

Spec == Init /\ [][Next]_vars

\* Sessions in which the user only signs in and out: initDocument alone.
NextInit ==
    \/ \E u \in {NoUser, Me} : AuthChange(u)
    \/ \E i \in 1..Len(calls) : \E r \in Failures : BackendFails(i, r)
    \/ \E i \in 1..Len(calls) : BackendFetch(i)
    \/ \E i \in 1..Len(calls) : BackendCreate(i)
    \/ \E i \in 1..Len(calls) : BackendLogInsert(i)
    \/ InitNext

\* No continuation of initDocument or of the header's operations reads the
\* editor, and no timer runs: one build stands for both.
InitOneBuild == Init /\ ~emitUpdate

SpecInit == InitOneBuild /\ [][NextInit]_vars

\* Sessions in which the user only edits the text.
NextEdit ==
    \/ BackendNext
    \/ InitNext
    \/ EditNext
    \/ Advance

SpecEdit == Init /\ [][NextEdit]_vars

\* Sessions in which the user only edits the title and imports documents.
NextHeader ==
    \/ BackendNext
    \/ InitNext
    \/ TitleNext
    \/ ImportNext

SpecHeader == InitOneBuild /\ [][NextHeader]_vars

\* Sessions in which the user edits the text and imports documents, with
\* time passing tick by tick.
\* The debounce timers on the 500 ms grid, for a signed-in user whose
\* document is adopted from the backend; every request succeeds.
NextTimed ==
    \/ InitDocument
    \/ \E i \in 1..Len(calls) : BackendFetch(i)
    \/ \E i \in 1..Len(calls) : BackendUpdate(i)
    \/ \E i \in 1..Len(calls) : BackendLogInsert(i)
    \/ \E i \in 1..Len(calls) : ResumeInitFetch(i)
    \/ \E i \in 1..Len(calls) : ResumeSave(i)
    \/ \E i \in 1..Len(calls) : ResumeLogEdit(i)
    \/ \E html \in TypedContents : EditorUpdate(html)
    \/ Tick
    \/ SaveTimerFires
    \/ LogTimerFires

InitAdopting == Init /\ user = Me /\ documents = SeedDocuments

SpecTimed == InitAdopting /\ [][NextTimed]_vars

\* Sessions in which no document is ever adopted: nobody is signed in, or
\* the select of initDocument fails. The editor, the header and the import
\* dialog are used all the same.
NextAbsent ==
    \/ InitDocument
    \/ \E i \in 1..Len(calls) : \E r \in Failures : BackendFails(i, r)
    \/ \E i \in 1..Len(calls) : ResumeInitFetch(i)
    \/ \E html \in TypedContents : EditorUpdate(html)
    \/ Advance
    \/ SaveTimerFires
    \/ LogTimerFires
    \/ \E title \in TypedTitles : TitleChange(title)
    \/ \E f \in ImportFiles : ImportFile(f)

SpecAbsent == Init /\ [][NextAbsent]_vars

\* Sessions of a signed-in user in which every operation of the hook is
\* used: initDocument, the debounced save and edit log, a title change and
\* an import.
InitSignedIn == Init /\ user = Me /\ ~emitUpdate

NextOperations ==
    \/ BackendNext
    \/ InitNext
    \/ EditorUpdate("<p>a</p>")
    \/ Advance
    \/ SaveTimerFires
    \/ LogTimerFires
    \/ \E i \in 1..Len(calls) : ResumeSave(i)
    \/ \E i \in 1..Len(calls) : ResumeLogEdit(i)
    \/ TitleChange("T")
    \/ \E i \in 1..Len(calls) : ResumeTitleUpdate(i)
    \/ \E i \in 1..Len(calls) : ResumeTitleLog(i)
    \/ \E f \in {g \in ImportFiles : g.name = "Report.docx"} : ImportFile(f)
    \/ \E i \in 1..Len(calls) : ResumeImportUpdate(i)
    \/ \E i \in 1..Len(calls) : ResumeImportLog(i)

SpecOperations == InitSignedIn /\ [][NextOperations]_vars

\* The history panel of a signed-in user over two of their documents, while
\* collaborators append to the edit log.
InitHistory ==
    /\ documents = SeedDocuments
    /\ document_edits = HistoryEdits
    /\ document_shares = HistoryShares
    /\ clock = 4
    /\ InitClient
    /\ user = Me
    /\ ~emitUpdate

NextHistory ==
    \/ \E d \in {0, 1, 2} : PanelMount(d)
    \/ \E d \in {0, 1, 2} : PanelRender(d)
    \/ PanelUnmount
    \/ CollaboratorLogsEdit(Other, 1)
    \/ CollaboratorLogsEdit(Me, 2)
    \/ Notified
    \/ \E f \in 1..Len(fetches) : \E r \in Failures : HistoryFails(f, r)
    \/ \E f \in 1..Len(fetches) : HistorySelectEdits(f)
    \/ \E f \in 1..Len(fetches) : HistorySelectProfiles(f)
    \/ \E f \in 1..Len(fetches) : ResumeHistoryEdits(f)
    \/ \E f \in 1..Len(fetches) : ResumeHistoryProfiles(f)

SpecHistory == InitHistory /\ [][NextHistory]_vars

\* The API used directly, by the two accounts and by an anonymous caller,
\* over one document of each account; no document is shared yet.
InitPolicy ==
    /\ documents = {d \in SeedDocuments : d.id # 2}
    /\ document_edits = SelectSeq(SeedEdits, LAMBDA e : e.document_id # 2)
    /\ document_shares = {}
    /\ clock = 4
    /\ InitClient
    /\ user = Me
    /\ ~emitUpdate

NextPolicy ==
    \/ \E uid \in Callers : \E d \in 1..MaxDocs : ApiSelectDocument(uid, d)
    \/ \E uid \in Callers : \E owner \in Users : ApiInsertDocument(uid, owner)
    \/ \E uid \in Callers : \E d \in 1..MaxDocs :
           \/ ApiUpdateDocument(uid, d, "title", "T")
           \/ \E owner \in Users : ApiUpdateDocument(uid, d, "owner_id", owner)
    \/ \E uid \in Callers : \E d \in 1..MaxDocs : ApiDeleteDocument(uid, d)
    \/ \E uid \in Callers : \E d \in 1..MaxDocs : \E u \in Users :
           ApiInsertShare(uid, d, u)
    \/ \E uid \in Callers : \E d \in 1..MaxDocs : \E u \in Users :
           ApiDeleteShare(uid, d, u)

SpecPolicy == InitPolicy /\ [][NextPolicy]_vars

\* The user edits a finite number of times and then stops: an edit is made
\* only while the save its timer will call can still be issued.
LastEdits(html) ==
    /\ Len(calls) < MaxCalls
    /\ EditorUpdate(html)

\* The editor stays mounted with user Me signed in, the user edits and then
\* rests, and every backend call succeeds. The edit-log timer plays no part
\* in what is saved and is left pending.
NextRest ==
    \/ InitDocument
    \/ \E i \in 1..Len(calls) : BackendFetch(i)
    \/ \E i \in 1..Len(calls) : BackendUpdate(i)
    \/ \E i \in 1..Len(calls) : ResumeInitFetch(i)
    \/ \E i \in 1..Len(calls) : ResumeSave(i)
    \/ \E html \in TypedContents : LastEdits(html)
    \/ Advance
    \/ SaveTimerFires

\* The build whose setContent emits no "update", with a document to adopt.
InitRest == InitAdopting /\ ~emitUpdate

\* The effect runs, every request is answered, every continuation runs, time
\* passes and a due timer runs its callback; the user need not edit.
FairRest ==
    /\ WF_vars(InitDocument)
    /\ WF_vars(\E i \in 1..Len(calls) : BackendFetch(i))
    /\ WF_vars(\E i \in 1..Len(calls) : BackendUpdate(i))
    /\ WF_vars(\E i \in 1..Len(calls) : ResumeInitFetch(i))
    /\ WF_vars(\E i \in 1..Len(calls) : ResumeSave(i))
    /\ WF_vars(Advance)
    /\ WF_vars(SaveTimerFires)

SpecRest == InitRest /\ [][NextRest]_vars /\ FairRest

\* Sessions in which the user only uses the import dialog: files are chosen
\* or dropped, Import is pressed with or without a selected file.
NextDialog ==
    \/ BackendNext
    \/ InitNext
    \/ \E f \in ImportFiles : \E dropped \in BOOLEAN : DialogSelect(f, dropped)
    \/ DialogImport
    \/ DialogConvertFails
    \/ \E i \in 1..Len(calls) : ResumeImportUpdate(i)
    \/ \E i \in 1..Len(calls) : ResumeImportLog(i)

SpecDialog == InitSignedIn /\ [][NextDialog]_vars

\* Sessions in which the user edits the text and leaves the page at any
\* moment: the editor unmounts while timers are pending or calls in flight.
NextUnmount ==
    \/ NextTimed
    \/ EditorUnmount

SpecUnmount == InitAdopting /\ [][NextUnmount]_vars

\* ------------------------------------------------------------------ claims

\* Call i takes a step of the backend that answers its request with success.
Succeeds(i, op, stage) ==
    /\ calls[i].op = op /\ calls[i].stage = stage /\ calls[i].res = "none"
    /\ calls'[i].res = "ok"

\* Call i continues after a successful request.
ContinuesOk(i, op, stage) ==
    /\ calls[i].op = op /\ calls[i].stage = stage /\ calls[i].res = "ok"
    /\ calls'[i] # calls[i]

\* Call i continues after a failed request.
ContinuesFailed(i, op, stage) ==
    /\ calls[i].op = op /\ calls[i].stage = stage
    /\ calls[i].res \in Failures
    /\ calls'[i] # calls[i]

DocumentsOf(owner) == {d \in documents : d.owner_id = owner}

EditsWith(docId, action) ==
    {k \in DOMAIN document_edits :
        document_edits[k].document_id = docId /\ document_edits[k].action = action}

C1_Step(i) ==
    \* the select for a user who owns nothing returns no row ...
    /\ Succeeds(i, "init", "fetch") /\ DocumentsOf(calls[i].usr) = {}
         => calls'[i].row = NoDoc
    \* ... and initDocument then inserts instead of adopting
    /\ ContinuesOk(i, "init", "fetch") /\ calls[i].row = NoDoc
         => /\ calls'[i].stage = "create"
            /\ UNCHANGED <<document, backendVars>>
    \* the insert adds exactly one row, owned by the user, with the
    \* placeholder title and the welcome payload
    /\ Succeeds(i, "init", "create")
         => /\ \E row \in documents' \ documents :
                 /\ documents' = documents \cup {row}
                 /\ row.owner_id = calls[i].usr
                 /\ row.title = "Untitled Document"
                 /\ row.content = defaultContent
                 /\ calls'[i].row = row
            /\ UNCHANGED document_edits
    \* the created row becomes the local document and its creation is logged
    /\ ContinuesOk(i, "init", "create")
         => /\ document' = calls[i].row
            /\ calls'[i].stage = "log"
            /\ UNCHANGED backendVars
    \* the log insert appends exactly one "created" row for it
    /\ Succeeds(i, "init", "log")
         => /\ document_edits' = Append(document_edits,
                  [document_id |-> calls[i].row.id, user_id |-> calls[i].usr,
                   action |-> "created"])
            /\ UNCHANGED documents
    \* and initDocument returns
    /\ ContinuesOk(i, "init", "log")
         => /\ calls'[i].stage = "done"
            /\ UNCHANGED <<document, backendVars>>

C1_Created(i) ==
    calls[i].op = "init" /\ calls[i].outcome = "created" /\ calls[i].res = "ok"

\* C1: for a user who owns no document, an initDocument whose requests
\* succeed creates exactly one documents row (owner = the user, title
\* "Untitled Document", content = the welcome payload), adopts it as the local
\* document, and appends exactly one document_edits row with action "created"
\* for that document and user.
C1_InitCreatesOneDocument ==
    /\ [][\A i \in DOMAIN calls : C1_Step(i)]_vars
    /\ [](\A i \in DOMAIN calls : C1_Created(i) =>
            /\ Cardinality({d \in documents : d.id = calls[i].doc}) = 1
            /\ Cardinality(EditsWith(calls[i].doc, "created")) = 1
            /\ \A j \in DOMAIN calls :
                 C1_Created(j) /\ j # i => calls[j].doc # calls[i].doc)

C1_Witness ==
    \E i \in DOMAIN calls :
        /\ C1_Created(i)
        /\ document.id = calls[i].doc
        /\ document.owner_id = Me
        /\ EditsWith(calls[i].doc, "created") # {}

C2_Step(i) ==
    \* the select returns, of the rows the user owns, one with the greatest
    \* updated_at, and changes nothing
    /\ Succeeds(i, "init", "fetch") /\ DocumentsOf(calls[i].usr) # {}
         => /\ calls'[i].row \in DocumentsOf(calls[i].usr)
            /\ \A d \in DocumentsOf(calls[i].usr) :
                  d.updated_at <= calls'[i].row.updated_at
            /\ UNCHANGED backendVars
    \* that row is adopted and initDocument returns without any insert
    /\ ContinuesOk(i, "init", "fetch") /\ calls[i].row # NoDoc
         => /\ document' = calls[i].row
            /\ calls'[i].stage = "done"
            /\ UNCHANGED backendVars

\* C2: for a user who owns one or more documents, initDocument adopts the
\* owned row with the greatest updated_at and inserts no documents row and no
\* document_edits row.
C2_InitAdoptsLatest == [][\A i \in DOMAIN calls : C2_Step(i)]_vars

C2_Witness ==
    \E i \in DOMAIN calls :
        /\ calls[i].op = "init" /\ calls[i].outcome = "found"
        /\ Cardinality(DocumentsOf(Me)) >= 2
        /\ document.id = 1
        /\ documents = SeedDocuments /\ document_edits = SeedEdits

InitCompleted(i) == calls[i].op = "init" /\ calls[i].stage = "done"

\* C9: isLoading is true until an initDocument attempt has completed, and
\* false from then on, whatever the attempt's outcome.
C9_LoadingUntilInitCompleted ==
    isLoading = ~(\E i \in DOMAIN calls : InitCompleted(i))

C9_Witness ==
    /\ ~isLoading
    /\ \E i, j, k \in DOMAIN calls :
         /\ InitCompleted(i) /\ calls[i].outcome = "nouser"
         /\ InitCompleted(j) /\ calls[j].outcome = "queryfail"
         /\ InitCompleted(k) /\ calls[k].outcome = "createfail"

\* C10 as claimed: an initDocument attempt that ends in a query or creation
\* failure notifies the user and leaves the local document null.
C10_FailedInitClearsDocument ==
    [][\A i \in DOMAIN calls :
         (ContinuesFailed(i, "init", "fetch") \/ ContinuesFailed(i, "init", "create"))
            => /\ toasts'[FailedToLoad] = toasts[FailedToLoad] + 1
               /\ document' = NoDoc]_vars


\* Every row but the one with identifier docId is as it was, and that one
\* keeps its identifier and owner.
OnlyRowChanged(docId) ==
    /\ Cardinality(documents') = Cardinality(documents)
    /\ \A d \in documents :
         \E e \in documents' :
            /\ e.id = d.id
            /\ e.owner_id = d.owner_id
            /\ d.id # docId => e = d
    /\ UNCHANGED <<document_shares>>

RowOf(docs, docId) == CHOOSE d \in docs : d.id = docId

C3_Step(i) ==
    \* the backend update changes the content and the timestamp of that row
    /\ Succeeds(i, "save", "update")
         => /\ OnlyRowChanged(calls[i].doc)
            /\ RowOf(documents', calls[i].doc).content = calls[i].content
            /\ RowOf(documents', calls[i].doc).title
                   = RowOf(documents, calls[i].doc).title
            /\ RowOf(documents', calls[i].doc).updated_at
                   > RowOf(documents, calls[i].doc).updated_at
    \* so does the local update, and saveDocument returns
    /\ ContinuesOk(i, "save", "update")
         => /\ document'.content = calls[i].content
            /\ document'.id = document.id
            /\ document'.owner_id = document.owner_id
            /\ document'.title = document.title
            /\ document'.updated_at >= document.updated_at
            /\ calls'[i].stage = "done"
            /\ UNCHANGED documents
    \* no step of saveDocument appends an edit-log row
    /\ calls[i].op = "save" /\ calls'[i] # calls[i] => UNCHANGED document_edits

\* C3: a successful saveDocument(content) changes only the content (and the
\* updated timestamp) of the current document, in the backend row and in
\* local state; id, owner_id and title are unchanged, and the save appends
\* no document_edits row.
C3_SaveChangesOnlyContent ==
    [][/\ \A i \in DOMAIN calls : C3_Step(i)
       /\ Len(calls') > Len(calls) /\ calls'[Len(calls')].op = "save"
            => UNCHANGED backendVars]_vars

C3_Witness ==
    \E i \in DOMAIN calls :
        /\ calls[i].op = "save" /\ calls[i].outcome = "saved"
        /\ document.id = 1 /\ document.title = "Old"
        /\ document.content = "<p>ab</p>"
        /\ RowOf(documents, 1).content = "<p>ab</p>"
        /\ RowOf(documents, 1).title = "Old"
        /\ document_edits = SeedEdits

\* C6: when the backend update of saveDocument fails, the local document is
\* left as it was, a failure notification is produced, and isSaving is false
\* again.
C6_FailedSaveKeepsDocument ==
    [][\A i \in DOMAIN calls :
         ContinuesFailed(i, "save", "update")
            => /\ document' = document
               /\ toasts'[FailedToSave] = toasts[FailedToSave] + 1
               /\ ~isSaving'
               /\ calls'[i].stage = "done"]_vars

C6_Witness ==
    \E i \in DOMAIN calls :
        /\ calls[i].op = "save" /\ calls[i].outcome = "failed"
        /\ toasts[FailedToSave] = 1
        /\ ~isSaving
        /\ document.id = 1 /\ document.content = "<p>old</p>"
        /\ editorContent # "<p>old</p>"

SaveInFlight == \E i \in DOMAIN calls : calls[i].op = "save" /\ InFlight(calls[i])

\* C8 as claimed: isSaving is true exactly while a saveDocument backend call
\* is in flight, also when two saves overlap.
C8_SavingWhileInFlight == isSaving = SaveInFlight

C4_Step(i) ==
    \* the backend update sets the row's title ...
    /\ Succeeds(i, "title", "update")
         => /\ OnlyRowChanged(calls[i].doc)
            /\ RowOf(documents', calls[i].doc).title = calls[i].title
            /\ RowOf(documents', calls[i].doc).content
                   = RowOf(documents, calls[i].doc).content
            /\ UNCHANGED document_edits
    \* ... the local title follows, and the change is logged
    /\ ContinuesOk(i, "title", "update")
         => /\ document' = [document EXCEPT !.title = calls[i].title]
            /\ calls'[i].stage = "log"
            /\ UNCHANGED backendVars
    /\ Succeeds(i, "title", "log")
         => /\ document_edits' = Append(document_edits,
                  [document_id |-> calls[i].doc, user_id |-> calls[i].usr,
                   action |-> "title_changed"])
            /\ UNCHANGED documents
    /\ ContinuesOk(i, "title", "log")
         => /\ calls'[i].stage = "done"
            /\ UNCHANGED <<document, backendVars>>

\* The updateTitle calls whose "title_changed" insert has been applied.
C4_Logged ==
    {i \in DOMAIN calls :
        /\ calls[i].op = "title" /\ calls[i].res = "ok"
        /\ calls[i].stage = "log" \/ calls[i].outcome = "updated"}

\* C4: each updateTitle(title) call with a current document and user whose
\* requests succeed sets the title to the given value and appends exactly
\* one document_edits row with action "title_changed".
C4_TitleChangeLoggedOnce ==
    /\ [][\A i \in DOMAIN calls : C4_Step(i)]_vars
    /\ [](Cardinality({k \in DOMAIN document_edits :
                         document_edits[k].action = "title_changed"})
            = Cardinality(C4_Logged))

C4_Witness ==
    /\ Cardinality(C4_Logged) = 2
    /\ \A i \in C4_Logged : calls[i].stage = "done"
    /\ document.title = "Ti"
    /\ RowOf(documents, document.id).title = "Ti"
    /\ Cardinality(EditsWith(document.id, "title_changed")) = 2

\* The last n characters of s, lower-cased.
C5_Tail(s, n) ==
    IF Len(s) < n THEN "" ELSE Lower(SubSeq(s, Len(s) - n + 1, Len(s)))

\* fileName without one trailing ".doc" or ".docx", in any letter case.
C5_Title(fileName) ==
    IF C5_Tail(fileName, 5) = ".docx" THEN SubSeq(fileName, 1, Len(fileName) - 5)
    ELSE IF C5_Tail(fileName, 4) = ".doc" THEN SubSeq(fileName, 1, Len(fileName) - 4)
    ELSE fileName

C5_Names ==
    {"Report.docx", "report.DOC", "a.doc.DOC", "a.docx.doc", "x.Docx", "doc",
     "docx", ".doc", "notes.txt", "notes.docs", "x.docx.bak", "adoc", "a.do"}

C5_Step(i) ==
    \* one backend update sets the content and the stripped title ...
    /\ Succeeds(i, "import", "update")
         => /\ OnlyRowChanged(calls[i].doc)
            /\ RowOf(documents', calls[i].doc).content = calls[i].content
            /\ RowOf(documents', calls[i].doc).title = C5_Title(calls[i].title)
            /\ UNCHANGED document_edits
    \* ... local state gets the same two values, and the import is logged
    /\ ContinuesOk(i, "import", "update")
         => /\ document'.content = calls[i].content
            /\ document'.title = C5_Title(calls[i].title)
            /\ document'.id = document.id
            /\ document'.owner_id = document.owner_id
            /\ calls'[i].stage = "log"
            /\ UNCHANGED backendVars
    /\ Succeeds(i, "import", "log")
         => /\ document_edits' = Append(document_edits,
                  [document_id |-> calls[i].doc, user_id |-> calls[i].usr,
                   action |-> "imported"])
            /\ UNCHANGED documents
    /\ ContinuesOk(i, "import", "log")
         => /\ calls'[i].stage = "done"
            /\ UNCHANGED <<document, backendVars>>

\* C5: importContent(content, fileName) whose requests succeed sets, in one
\* update and identically in the backend row and in local state, the content
\* to the given content and the title to fileName without one trailing ".doc"
\* or ".docx" (any letter case, the name otherwise unchanged), and appends one
\* document_edits row with action "imported".
C5_ImportSetsContentAndTitle ==
    /\ [][\A i \in DOMAIN calls : C5_Step(i)]_vars
    /\ [](\A name \in C5_Names : StripExt(name) = C5_Title(name))

C5_Witness ==
    \E i \in DOMAIN calls :
        /\ calls[i].op = "import" /\ calls[i].outcome = "imported"
        /\ calls[i].res = "ok"
        /\ document.title = "a.doc"
        /\ document.content = "<p>w</p>"
        /\ RowOf(documents, document.id).title = "a.doc"
        /\ RowOf(documents, document.id).content = "<p>w</p>"
        /\ Cardinality(EditsWith(document.id, "imported")) = 1


\* A step in which the save timer runs and calls saveDocument.
C7_SaveIssued == savesSinceUpdate' = savesSinceUpdate + 1

\* One save per run of updates, 1.5 s after the run's last update and not
\* before.
C7_Timing ==
    /\ [][C7_SaveIssued => sinceUpdate = SaveDelay /\ savesSinceUpdate = 0]_vars
    /\ [](/\ savesSinceUpdate <= 1
          /\ sinceUpdate < SaveDelay => savesSinceUpdate = 0
          /\ sinceUpdate > SaveDelay => savesSinceUpdate = 1)

\* The save carries the content the editor had at the run's last update.
C7_Content ==
    [][C7_SaveIssued =>
         /\ editorContent = lastUpdateContent
         /\ calls'[Len(calls')].stage = "update"
              => calls'[Len(calls')].content = lastUpdateContent]_vars

\* C7 as claimed: for a run of editor updates less than 1.5 s apart, exactly
\* one saveDocument call is issued, 1.5 s after the last update of the run,
\* carrying the editor content as of that last update; no save is issued
\* while the run continues.
C7_DebouncedSave == C7_Timing /\ C7_Content

\* C11 as claimed: in initDocument, updateTitle and importContent, when the
\* document write has succeeded and the edit-log insert that follows fails
\* (an error result or a rejected call), no failure notification is produced
\* and the local document keeps the result of the write.
C11_LogFailureIsSilent ==
    [][\A i \in DOMAIN calls :
         \A op \in {"init", "title", "import"} :
            ContinuesFailed(i, op, "log")
               => /\ toasts' = toasts
                  /\ document' = document]_vars

\* A step in which an operation of the hook is called and sends a request.
Issues(op) ==
    /\ Len(calls') = Len(calls) + 1
    /\ calls'[Len(calls')].op = op
    /\ calls'[Len(calls')].stage # "done"

C12_Step(i) ==
    \* the insert carries the call's document, user and action
    /\ Succeeds(i, "log", "log")
         => /\ document_edits' = Append(document_edits,
                  [document_id |-> calls[i].doc, user_id |-> calls[i].usr,
                   action |-> calls[i].action])
            /\ UNCHANGED documents
    \* no step of the call notifies or touches the hook's state
    /\ calls[i].op = "log" /\ calls'[i] # calls[i]
         => /\ toasts' = toasts
            /\ UNCHANGED hookVars
    \* a failed insert adds no row, and the call sends nothing after its insert
    /\ calls[i].op = "log" /\ calls[i].res # "none" => calls'[i].res = calls[i].res
    /\ calls[i].op = "log" /\ calls'[i] # calls[i] /\ calls'[i].res # "ok"
         => UNCHANGED backendVars

\* C12: logEdit(action) with a current document and user issues exactly one
\* document_edits insert carrying the current document id, the current user
\* id and the given action; whether the insert succeeds or fails, no
\* notification is produced and document, isSaving and isLoading are
\* unchanged.
C12_LogEditIsSilent ==
    /\ [][/\ \A i \in DOMAIN calls : C12_Step(i)
          /\ Issues("log")
               => /\ calls'[Len(calls')].doc = document.id
                  /\ calls'[Len(calls')].usr = user
                  /\ calls'[Len(calls')].action = "edited"
                  /\ toasts' = toasts
                  /\ UNCHANGED <<hookVars, backendVars>>]_vars
    /\ [](Cardinality({k \in DOMAIN document_edits :
                         document_edits[k].action = "edited"})
            = Cardinality({i \in DOMAIN calls :
                             calls[i].op = "log" /\ calls[i].res = "ok"}))

C12_Witness ==
    \E i \in DOMAIN calls :
        /\ calls[i].op = "log" /\ calls[i].outcome = "logged"
        /\ calls[i].res = "reject"
        /\ calls[i].doc = document.id
        /\ EditsWith(document.id, "edited") = {}
        /\ \A m \in ToastMessages : toasts[m] = 0
        /\ ~isSaving /\ ~isLoading

\* The toast of the operation's catch block.
C13_Toast(op) == IF op = "title" THEN FailedToUpdateTitle ELSE FailedToImport

\* The calls of op whose edit-log insert has been applied.
C13_Logged(op) ==
    {i \in DOMAIN calls :
        /\ calls[i].op = op /\ calls[i].res = "ok"
        /\ calls[i].stage = "log" \/ calls[i].outcome \in {"updated", "imported"}}

C13_Step(i, op) ==
    \* the failing answer itself changes nothing in the backend
    /\ calls[i].op = op /\ calls[i].stage = "update" /\ calls[i].res = "none"
       /\ calls'[i].res \in Failures
         => UNCHANGED backendVars
    \* the continuation notifies, keeps the local document and returns
    /\ ContinuesFailed(i, op, "update")
         => /\ toasts'[C13_Toast(op)] = toasts[C13_Toast(op)] + 1
            /\ document' = document
            /\ calls'[i].stage = "done"
            /\ UNCHANGED backendVars
    \* and a call that has returned sends nothing more
    /\ calls[i].op = op /\ calls[i].stage = "done" => calls'[i] = calls[i]

\* C13: when the backend update issued by updateTitle or importContent fails,
\* the user is notified, the local document is left unchanged, and no
\* "title_changed" / "imported" row is appended for that call.
C13_FailedUpdateNotLogged ==
    /\ [][\A i \in DOMAIN calls :
            C13_Step(i, "title") /\ C13_Step(i, "import")]_vars
    /\ [](/\ Cardinality({k \in DOMAIN document_edits :
                            document_edits[k].action = "title_changed"})
               = Cardinality(C13_Logged("title"))
          /\ Cardinality({k \in DOMAIN document_edits :
                            document_edits[k].action = "imported"})
               = Cardinality(C13_Logged("import")))

C13_Witness ==
    \E i, j \in DOMAIN calls :
        /\ calls[i].op = "title" /\ calls[i].outcome = "failed"
        /\ calls[j].op = "import" /\ calls[j].outcome = "failed"
        /\ toasts[FailedToUpdateTitle] = 1 /\ toasts[FailedToImport] = 1
        /\ document.id = 1 /\ document.title = "Old"
        /\ document.content = "<p>old</p>"
        /\ document_edits = SeedEdits

\* A step in which op is called while the hook has no document or no user.
C14_CalledWithout(op) ==
    /\ document = NoDoc \/ user = NoUser
    /\ Len(calls') = Len(calls) + 1
    /\ calls'[Len(calls')].op = op

\* C14: saveDocument, updateTitle, logEdit and importContent called while
\* there is no current document or no authenticated user issue no backend
\* request, produce no notification, and leave document, isSaving and
\* isLoading unchanged.
C14_NoOpWithoutDocumentOrUser ==
    /\ [][\A op \in {"save", "title", "log", "import"} :
            C14_CalledWithout(op)
               => /\ calls'[Len(calls')].stage = "done"
                  /\ calls'[Len(calls')].res = "none"
                  /\ toasts' = toasts
                  /\ UNCHANGED <<document, isSaving, isLoading>>
                  /\ UNCHANGED <<documents, document_edits, document_shares>>]_vars
    /\ [](\A i \in DOMAIN calls :
            calls[i].outcome = "noop"
               => calls[i].stage = "done" /\ calls[i].res = "none")

C14_Witness ==
    \E i, j \in DOMAIN calls :
        /\ calls[i].op \in {"save", "log"} /\ calls[i].outcome = "noop"
        /\ calls[j].op \in {"title", "import"} /\ calls[j].outcome = "noop"
        /\ user = Me /\ document = NoDoc
        /\ toasts[FailedToLoad] = 1 /\ toasts[FailedToSave] = 0
        /\ toasts[FailedToUpdateTitle] = 0 /\ toasts[FailedToImport] = 0
        /\ documents = SeedDocuments /\ document_edits = SeedEdits
        /\ ~isSaving /\ ~isLoading

\* A step in which the log timer runs and calls logEdit.
C15_LogIssued == logsSinceUpdate' = logsSinceUpdate + 1

\* A step in which the user types in the editor.
C15_Typed ==
    /\ editorContent' # editorContent
    /\ document' = document
    /\ calls' = calls

C16_Name(uid) ==
    LET own == {p \in profiles : p.user_id = uid /\ uid # NoUser}
    IN  IF \E p \in own : p.display_name # ""
        THEN (CHOOSE p \in own : p.display_name # "").display_name
        ELSE IF \E p \in own : p.email # ""
        THEN LET email == (CHOOSE p \in own : p.email # "").email
                 n == CHOOSE i \in 0..Len(email) :
                        /\ i < Len(email) => SubSeq(email, i + 1, i + 1) = "@"
                        /\ \A j \in 1..i : SubSeq(email, j, j) # "@"
             IN  SubSeq(email, 1, n)
        ELSE "Unknown user"

\* C16 as claimed: every row the history panel shows is rendered with the
\* profile's display_name when the acting user has one, otherwise with the
\* part of the profile's email before "@" when there is an email, otherwise
\* with "Unknown user"; rows are shown newest first.
C16_ActorNames ==
    /\ \A k \in DOMAIN edits : getUserName(edits[k]) = C16_Name(edits[k].user_id)
    /\ \A j, k \in DOMAIN edits :
          j < k => edits[j].created_at > edits[k].created_at

\* The rows shown and their order are those of the edit log.
C16_Rows ==
    /\ \A j, k \in DOMAIN edits :
          j < k => edits[j].created_at > edits[k].created_at
    /\ \A k \in DOMAIN edits :
          /\ edits[k].created_at \in DOMAIN document_edits
          /\ document_edits[edits[k].created_at].user_id = edits[k].user_id

\* C17: at every moment the history panel holds at most one realtime
\* subscription, and it is the one filtered to the current documentId; none
\* exists while the documentId is null or the panel is not mounted, so the
\* subscription of a documentId is removed when the documentId changes and
\* when the panel unmounts.
C17_OneSubscription ==
    /\ Len(channels) <= 1
    /\ channels = (IF documentId # 0 THEN <<documentId>> ELSE <<>>)
    /\ ~panelMounted => channels = <<>> /\ documentId = 0

C17_Witness ==
    /\ panelMounted /\ documentId = 2
    /\ channels = <<2>>
    /\ \E f \in DOMAIN fetches : fetches[f].doc = 1
    /\ \E f \in DOMAIN fetches : fetches[f].doc = 2

\* C18: the edit log is append-only under the application: whatever the
\* hook's operations (init, save, title update, log edit, import) do, every
\* document_edits row that existed before a step exists after it, at its
\* place and with unchanged document_id, user_id and action; rows are only
\* added, one at a time.
C18_EditLogAppendOnly ==
    [][/\ Len(document_edits') \in {Len(document_edits), Len(document_edits) + 1}
       /\ \A k \in DOMAIN document_edits : document_edits'[k] = document_edits[k]]_vars

C18_Witness ==
    /\ Len(document_edits) = Len(SeedEdits) + 2
    /\ SubSeq(document_edits, 1, Len(SeedEdits)) = SeedEdits
    /\ document_edits[Len(SeedEdits) + 1].action = "title_changed"
    /\ document_edits[Len(SeedEdits) + 2].action = "imported"
    /\ \E i \in DOMAIN calls : calls[i].op = "import" /\ calls[i].stage = "done"

\* C19: a document's owner_id never changes while the row exists: no step,
\* of the hook or of an update the documents policies admit, leaves a row
\* with the same id under another owner_id.
C19_OwnerNeverChanges ==
    [][\A d \in documents : \A e \in documents' :
           e.id = d.id => e.owner_id = d.owner_id]_vars

\* Caller uid is the owner of row d or holds a document_shares row for it.
C20_OwnerOrShared(d, uid) ==
    \/ d.owner_id = uid
    \/ [document_id |-> d.id, user_id |-> uid] \in document_shares

\* The documents rows other than the requested one are not touched.
C20_OthersKept ==
    /\ \A d \in documents : d.id # request'.doc => d \in documents'
    /\ \A d \in documents' : d.id # request'.doc => d \in documents

C20_Step ==
    /\ request'.admitted /\ request'.op \in {"select", "update"}
           => \E d \in documents :
                  d.id = request'.doc /\ C20_OwnerOrShared(d, request'.uid)
    /\ request'.admitted /\ request'.op = "insert"
           => \E d \in documents' \ documents :
                  d.id = request'.doc /\ d.owner_id = request'.uid
    /\ request'.admitted /\ request'.op = "delete"
           => \E d \in documents \ documents' :
                  d.id = request'.doc /\ d.owner_id = request'.uid
    /\ documents' # documents
           => /\ request'.admitted
              /\ request'.op \in {"insert", "update", "delete"}
              /\ C20_OthersKept

\* C20: a request on documents is let through by the policies only for the
\* right caller: a select or an update of a row only for its owner or a
\* holder of a document_shares row for it, an insert only of a row whose
\* owner_id is the caller, a delete only for the row's owner; a request that
\* is not let through leaves documents as it is.
C20_PolicyAdmitsOwnerOrShared == [][C20_Step]_vars

\* A collaborator holding a share has updated a row owned by someone else,
\* and an anonymous caller exists whose requests are refused.
C20_Witness ==
    /\ request = Requested(Other, "update", 1, TRUE)
    /\ [document_id |-> 1, user_id |-> Other] \in document_shares
    /\ \E d \in documents : d.id = 1 /\ d.owner_id = Me /\ d.title = "T"

\* C21: no document_shares row names as collaborator the owner of its
\* document (shares are created by the owner, for somebody else, once per
\* document and user).
C21_NoShareNamesOwner ==
    \A s \in document_shares : ~is_document_owner(s.document_id, s.user_id)

\* The "created" rows of the edit log written for user u.
C22_CreatedBy(u) ==
    {k \in DOMAIN document_edits :
        document_edits[k].user_id = u /\ document_edits[k].action = "created"}

\* C22: initDocument creates at most one document, and logs at most one
\* "created" row, for a user: a user who owns at most one document never
\* comes to own two, whether or not executions of initDocument overlap.
C22_OneDocumentPerUser ==
    [][\A u \in Users :
           /\ Cardinality(DocumentsOf(u)) <= 1
                  => Cardinality(DocumentsOf(u)') <= 1
           /\ Cardinality(C22_CreatedBy(u)) <= 1
                  => Cardinality(C22_CreatedBy(u)') <= 1]_vars

\* Every operation called so far has returned, and none of them failed.
C23_Quiescent ==
    /\ ~effectPending
    /\ \A i \in DOMAIN calls :
           ~InFlight(calls[i]) /\ calls[i].outcome # "failed"

\* C23: once no backend call is in flight and every call succeeded, the
\* local document's content and title are those of its backend row, also
\* when calls overlapped and their responses came back in another order
\* than the backend applied the writes.
C23_LocalEqualsBackend ==
    C23_Quiescent /\ document # NoDoc
        => \E d \in documents :
               /\ d.id = document.id
               /\ d.content = document.content
               /\ d.title = document.title

\* The user has typed since saveDocument call i was issued: the editor holds
\* the text of the last update, and it is not the text call i is saving.
C24_TypedSince(i) ==
    /\ editorContent = lastUpdateContent
    /\ editorContent # calls[i].content

\* C24: when a successful save completes (its local state update and the
\* content-loading effect run), text typed into the editor after the save
\* was issued is still in the editor.
C24_SaveKeepsNewerText ==
    [][\A i \in DOMAIN calls :
           ContinuesOk(i, "save", "update") /\ C24_TypedSince(i)
               => editorContent' = editorContent]_vars

\* The backend row of the loaded document holds what the editor holds.
C25_Saved ==
    /\ document # NoDoc
    /\ \E d \in documents : d.id = document.id /\ d.content = editorContent

\* C25: with the editor mounted and a document loaded, once the user has
\* stopped editing and with every backend call succeeding, the content of
\* the backend row eventually equals the editor's content, and stays so.
C25_EventuallySaved ==
    <>[][~(\E html \in TypedContents : LastEdits(html))]_vars => <>[]C25_Saved

\* In SpecRest a pending save timer can always run its callback.
C25_TimerCanRun == saveTimeoutRef.on => Len(calls) < MaxCalls

\* The most recent saveDocument call has returned with the given outcome.
C26_LastSaveWas(outcomes) ==
    \E i \in DOMAIN calls :
        /\ calls[i].op = "save"
        /\ \A j \in DOMAIN calls : calls[j].op = "save" => j <= i
        /\ ~InFlight(calls[i])
        /\ calls[i].outcome \in outcomes

\* What DocumentHeader shows: isSaved={!isSaving} with a lastSaved time.
C26_ShownAsSaved == ~isSaving /\ lastSaved # 0

\* C26: the header shows the document as saved, with a lastSaved time, only
\* if the most recent save attempt succeeded; not after a save that failed
\* or returned at its guard.
C26_SavedOnlyAfterSuccess ==
    C26_LastSaveWas({"failed", "noop"}) => ~C26_ShownAsSaved

\* importContent calls that have not failed and did not return at the guard:
\* their update was applied, or is still awaited.
C27_Persisting ==
    {i \in DOMAIN calls :
        calls[i].op = "import" /\ calls[i].outcome \notin {"failed", "noop"}}

\* C27: the import dialog raises "Imported: <file name>" only for an import
\* that importContent persisted: there are never more success notifications
\* than importContent calls which neither failed nor returned at the guard.
C27_ImportedOnlyIfPersisted == dialog.imported <= Cardinality(C27_Persisting)

\* The name ends with ".doc" or ".docx", in any case: /\.(doc|docx)$/i.
C30_HasExtension(name) ==
    \E i \in 1..Len(name) :
        /\ SubSeq(name, i, i) = "."
        /\ Lower(SubSeq(name, i + 1, Len(name))) \in {"doc", "docx"}

\* C30: the import dialog selects a file, chosen or dropped, only if its
\* name ends with ".doc" or ".docx" in any case (so every fileName passed to
\* onImport, which is the selected file's name, ends so).
C30_SelectsOnlyWordFiles ==
    dialog.selectedFile # NoFile => C30_HasExtension(dialog.selectedFile.name)

\* The other half of C30: handleImport with no selected file does not call
\* onImport, and onImport is called with the selected file.
C30_NoFileNoImport ==
    [][/\ dialog.selectedFile = NoFile => dialog'.onImport = dialog.onImport
       /\ dialog'.onImport # dialog.onImport
            => \E i \in DOMAIN calls' :
                   /\ i \notin DOMAIN calls
                   /\ calls'[i].op = "import"
                   /\ calls'[i].title \in {dialog.selectedFile.name, ""}]_vars

\* Every fetchHistory execution has returned.
C28_NoFetchInFlight ==
    \A f \in DOMAIN fetches : fetches[f].stage = "done"

\* C28: whenever no history fetch is in flight, every entry the panel shows
\* is a row of the edit log of the panel's current documentId, also when
\* fetches overlapped or the documentId changed while one was outstanding.
C28_ShowsCurrentDocument ==
    C28_NoFetchInFlight /\ panelMounted /\ documentId # 0
        => \A k \in DOMAIN edits :
               document_edits[edits[k].created_at].document_id = documentId

\* A saveDocument or logEdit call is issued in this step.
C29_CallIssued ==
    \E i \in DOMAIN calls' :
        i \notin DOMAIN calls /\ calls'[i].op \in {"save", "log"}

\* C29: once the live editor has unmounted no debounce timer is pending and
\* no saveDocument or logEdit call is issued: an update made less than
\* 1.5 s (10 s) before the unmount causes no save (no log) call.
C29_UnmountCancelsTimers ==
    /\ [][~mounted'
            => /\ ~C29_CallIssued
               /\ savesSinceUpdate' = savesSinceUpdate
               /\ logsSinceUpdate' = logsSinceUpdate]_vars
    /\ [](~mounted => ~saveTimeoutRef.on /\ ~editLogTimeoutRef.on)

\* The editor unmounted one second after an update, before its save and its
\* log call were due, and neither call has been made.
C29_Witness ==
    /\ ~mounted
    /\ lastUpdateContent = "<p>a</p>"
    /\ sinceUpdate = 2
    /\ savesSinceUpdate = 0 /\ logsSinceUpdate = 0
    /\ \A i \in DOMAIN calls : calls[i].op = "init"

====
